---- MODULE Spec2Model ----
(***************************************************************************)
(* State-machine model of btc-script-builder: the script compiler          *)
(* (parseScript), the UTXO selector (selectUtxos), the funding builder     *)
(* (createScriptTransaction), the script registry (localStorage) and the   *)
(* unlock builder (ScriptManager.unlockScript).                            *)
(*                                                                         *)
(* Text is modelled as sequences of one-character strings; a script source *)
(* is the sequence of its lines (the result of split("\n")).  Byte strings *)
(* (Buffer) are sequences of 0..255.  Decimal literals are carried as      *)
(* little-endian base-256 digit sequences so that values beyond 32 bits    *)
(* keep the behaviour of the JavaScript number operators applied to them.  *)
(***************************************************************************)
EXTENDS Integers, Sequences, FiniteSets, TLC

VARIABLES
    \* ---- script compiler (parseScript) ----
    scriptText,     \* the source handed to parseScript: a sequence of lines
    baseText,       \* the source before any whitespace/comment edit
    parsed,         \* outcome of the last parseScript(scriptText) call
    baseParsed,     \* outcome of parseScript(baseText)
    edits,          \* number of whitespace/comment edits applied so far
    \* ---- UTXO selector (selectUtxos) ----
    selUtxos,       \* argument utxos
    selTarget,      \* argument targetAmount
    selResult,      \* outcome of the last selectUtxos call
    \* ---- environment: chain, wallet extension, browser storage ----
    chainWalletUtxos,  \* unspent outputs at the wallet address, as the API lists them
    chainScriptUtxos,  \* unspent outputs at script addresses
    localStorage,      \* the array stored under "btc_tracked_scripts"
    unisat,            \* window.unisat is present
    broadcasts,        \* transactions handed to pushTx, in order
    txCount,           \* transactions the network has accepted
    \* ---- createScriptTransaction ----
    fpc,            \* the await the call is suspended at, or idle/done/failed
    fAmount,        \* argument amount
    fAddress,       \* p2wsh.address
    fSelected,      \* selectedUtxos
    fTotalValue,    \* totalValue
    fChange,        \* changeAmount
    fPsbt,          \* the PSBT under construction
    fIndex,         \* position of the input loop in selectedUtxos
    fError,         \* message of the error the caller receives
    fResult,        \* value the call resolves to
    fTrace,         \* external steps performed, in order
    \* ---- ScriptManager ----
    scriptUtxos,    \* component state: the tracked scripts with their UTXOs
    u,              \* the unlockScript call: its locals and the await it is at
    witnessInputs,  \* ScriptCard state: the witness items typed into the unlock form
    witnessStack,   \* the witness stack built from them
    \* ---- script registry ----
    markCalls,      \* the addresses markScriptAsSpent was called with, in order
    tabs,           \* two tabs on the same localStorage, each inside a registry call
    \* ---- ScriptBuilder ----
    form            \* the submit form: currentStep, loading, pending timers, the clock

parseVars == <<scriptText, baseText, parsed, baseParsed, edits>>
selVars == <<selUtxos, selTarget, selResult>>
envVars == <<chainWalletUtxos, chainScriptUtxos, localStorage, unisat, broadcasts, txCount>>
fundVars == <<fpc, fAmount, fAddress, fSelected, fTotalValue, fChange, fPsbt, fIndex,
              fError, fResult, fTrace>>
unlockVars == <<scriptUtxos, u>>
witnessVars == <<witnessInputs, witnessStack>>
markVars == <<markCalls>>
tabVars == <<tabs>>
formVars == <<form>>
vars == <<parseVars, selVars, envVars, fundVars, unlockVars, witnessVars, markVars, tabVars,
         formVars>>

(***************************************************************************)
(* Generic sequence helpers.                                               *)
(***************************************************************************)
Last(s) == s[Len(s)]

Front(s) == SubSeq(s, 1, Len(s) - 1)

RECURSIVE SumSeq(_)
SumSeq(s) == IF s = <<>> THEN 0 ELSE Head(s) + SumSeq(Tail(s))

RECURSIVE SeqsUpTo(_, _)
\* all sequences over S of length 0..n
SeqsUpTo(S, n) ==
    IF n = 0 THEN {<<>>}
    ELSE LET shorter == SeqsUpTo(S, n - 1)
         IN  shorter \cup {Append(s, e) : s \in {t \in shorter : Len(t) = n - 1}, e \in S}

(***************************************************************************)
(* String primitives of the JavaScript runtime used by parseScript.        *)
(***************************************************************************)
Whitespace == {" ", "\t"}

Digits == {"0", "1", "2", "3", "4", "5", "6", "7", "8", "9"}

DigitVal(c) ==
    CASE c = "0" -> 0 [] c = "1" -> 1 [] c = "2" -> 2 [] c = "3" -> 3
      [] c = "4" -> 4 [] c = "5" -> 5 [] c = "6" -> 6 [] c = "7" -> 7
      [] c = "8" -> 8 [] c = "9" -> 9

HexDigits == Digits \cup {"a", "b", "c", "d", "e", "f", "A", "B", "C", "D", "E", "F"}

HexVal(c) ==
    CASE c \in Digits -> DigitVal(c)
      [] c \in {"a", "A"} -> 10 [] c \in {"b", "B"} -> 11 [] c \in {"c", "C"} -> 12
      [] c \in {"d", "D"} -> 13 [] c \in {"e", "E"} -> 14 [] c \in {"f", "F"} -> 15

RECURSIVE TrimStart(_)
TrimStart(s) ==
    IF s # <<>> /\ Head(s) \in Whitespace THEN TrimStart(Tail(s)) ELSE s

RECURSIVE TrimEnd(_)
TrimEnd(s) ==
    IF s # <<>> /\ Last(s) \in Whitespace THEN TrimEnd(Front(s)) ELSE s

\* a trim that leaves trailing whitespace in place
trimLeadingOnly(s) == TrimStart(s)

\* String.prototype.trim
trim(s) == TrimEnd(TrimStart(s))

\* String.prototype.startsWith
startsWith(s, prefix) ==
    Len(s) >= Len(prefix) /\ SubSeq(s, 1, Len(prefix)) = prefix

\* String.prototype.includes
includes(s, needle) ==
    \E i \in 0..(Len(s) - Len(needle)) : SubSeq(s, i + 1, i + Len(needle)) = needle

\* /^\d+$/.test(line)
IsDecimal(s) == s # <<>> /\ \A i \in 1..Len(s) : s[i] \in Digits

RECURSIVE SelectLines(_)
\* .filter((line) => line && !line.startsWith("//"))
SelectLines(ls) ==
    IF ls = <<>> THEN <<>>
    ELSE IF Head(ls) # <<>> /\ ~startsWith(Head(ls), <<"/", "/">>)
         THEN <<Head(ls)>> \o SelectLines(Tail(ls))
         ELSE SelectLines(Tail(ls))

\* scriptText.split("\n").map(trim).filter(...)
SourceLines(text) == SelectLines([i \in 1..Len(text) |-> trim(text[i])])

(***************************************************************************)
(* bitcoinjs-lib: the opcode table, Buffer.from(hex), script.number.encode *)
(* and script.compile, as parseScript uses them.                           *)
(***************************************************************************)
\* the entries of `opcodes` that the model's sources can name
opcodes ==
    { <<<<"O", "P", "_", "0">>, 0>>,
      <<<<"O", "P", "_", "1">>, 81>>,
      <<<<"O", "P", "_", "2">>, 82>>,
      <<<<"O", "P", "_", "1", "6">>, 96>>,
      <<<<"O", "P", "_", "D", "U", "P">>, 118>>,
      <<<<"O", "P", "_", "E", "Q", "U", "A", "L">>, 135>>,
      <<<<"O", "P", "_", "A", "D", "D">>, 147>>,
      <<<<"O", "P", "_", "S", "H", "A", "2", "5", "6">>, 168>>,
      <<<<"O", "P", "_", "C", "H", "E", "C", "K", "S", "I", "G">>, 172>>,
      <<<<"O", "P", "_", "C", "H", "E", "C", "K", "M", "U", "L", "T", "I", "S", "I", "G">>, 174>> }

OpcodeNames == {e[1] : e \in opcodes}

OpcodeOf(name) == (CHOOSE e \in opcodes : e[1] = name)[2]

OP_0 == 0

OP_1 == 81

OP_1NEGATE == 79

OP_RESERVED == 80

OP_PUSHDATA1 == 76

RECURSIVE HexDecode(_)
\* Buffer.from(hexData, "hex"): decodes byte pairs and stops, without an
\* error, at the first pair that is not two hex digits
HexDecode(h) ==
    IF Len(h) < 2 THEN <<>>
    ELSE IF h[1] \in HexDigits /\ h[2] \in HexDigits
         THEN <<16 * HexVal(h[1]) + HexVal(h[2])>> \o HexDecode(SubSeq(h, 3, Len(h)))
         ELSE <<>>

RECURSIVE MulAdd(_, _)
\* little-endian base-256 digits of 10 * value + carry
MulAdd(bs, carry) ==
    IF bs = <<>>
    THEN IF carry = 0 THEN <<>> ELSE <<carry % 256>> \o MulAdd(<<>>, carry \div 256)
    ELSE LET t == Head(bs) * 10 + carry
         IN  <<t % 256>> \o MulAdd(Tail(bs), t \div 256)

RECURSIVE ParseDigits(_, _)
ParseDigits(acc, ds) ==
    IF ds = <<>> THEN acc
    ELSE ParseDigits(MulAdd(acc, DigitVal(Head(ds))), Tail(ds))

RECURSIVE StripHighZeros(_)
StripHighZeros(bs) ==
    IF bs # <<>> /\ Last(bs) = 0 THEN StripHighZeros(Front(bs)) ELSE bs

\* parseInt(line) of an all-digit line (exact below 2^53): the magnitude as
\* little-endian base-256 digits without high zero bytes
parseInt(line) == StripHighZeros(ParseDigits(<<>>, line))

\* the number 0..255 held by a one-byte magnitude (0 for the empty one)
SmallValue(num) == IF num = <<>> THEN 0 ELSE num[1]

\* script_number.ts scriptNumSize(i)
scriptNumSize(num) ==
    LET n == Len(num)
        top == IF n = 0 THEN 0 ELSE num[n]
    IN  IF n > 4 \/ (n = 4 /\ top > 127) THEN 5          \* i > 0x7fffffff
        ELSE IF n > 3 \/ (n = 3 /\ top > 127) THEN 4     \* i > 0x7fffff
        ELSE IF n > 2 \/ (n = 2 /\ top > 127) THEN 3     \* i > 0x7fff
        ELSE IF n > 1 \/ (n = 1 /\ top > 127) THEN 2     \* i > 0x7f
        ELSE IF n > 0 THEN 1 ELSE 0                      \* i > 0x00

\* ToInt32 of a magnitude: its low four bytes read as a signed 32-bit integer
ToInt32(num) ==
    LET b(i) == IF i <= Len(num) THEN num[i] ELSE 0
    IN  b(1) + 256 * b(2) + 65536 * b(3)
          + 16777216 * (IF b(4) > 127 THEN b(4) - 256 ELSE b(4))

RECURSIVE EncodeLoop(_, _)
\* buffer.writeUInt8(value & 0xff, i); value >>= 8   on a 32-bit value
EncodeLoop(v, size) ==
    IF size = 0 THEN <<>>
    ELSE <<v % 256>> \o EncodeLoop(v \div 256, size - 1)

\* bitcoinScript.number.encode(num) for num >= 0.  The operators & and >>
\* work on the 32-bit conversion of the value.
numberEncode(num) ==
    LET size == scriptNumSize(num)
        buffer == EncodeLoop(ToInt32(num), size)
    IN  IF size > 0 /\ buffer[size] > 127
        THEN [buffer EXCEPT ![size] = 0]      \* writeUInt8(negative ? 0x80 : 0x00)
        ELSE buffer

OpElement(code) == [type |-> "op", code |-> code, bytes |-> <<>>]

DataElement(bytes) == [type |-> "data", code |-> 0, bytes |-> bytes]

\* script.ts asMinimalOP: the opcode that replaces a push, or -1
asMinimalOP(bytes) ==
    IF Len(bytes) = 0 THEN OP_0
    ELSE IF Len(bytes) # 1 THEN -1
    ELSE IF bytes[1] >= 1 /\ bytes[1] <= 16 THEN OP_RESERVED + bytes[1]
    ELSE IF bytes[1] = 129 THEN OP_1NEGATE
    ELSE -1

\* the serialisation of one chunk by script.compile
CompileChunk(el) ==
    IF el.type = "op" THEN <<el.code>>
    ELSE IF asMinimalOP(el.bytes) # -1 THEN <<asMinimalOP(el.bytes)>>
    ELSE IF Len(el.bytes) < OP_PUSHDATA1 THEN <<Len(el.bytes)>> \o el.bytes
    ELSE <<OP_PUSHDATA1, Len(el.bytes)>> \o el.bytes

RECURSIVE compile(_)
\* bitcoinScript.compile(scriptElements)
compile(els) ==
    IF els = <<>> THEN <<>> ELSE CompileChunk(Head(els)) \o compile(Tail(els))

(***************************************************************************)
(* parseScript                                                             *)
(***************************************************************************)
NoError == [kind |-> "none", line |-> <<>>]

ParseError(kind, line) == [kind |-> kind, line |-> line]

\* a loop body that lets an unknown OP_ word through as OP_0
ParseLineLenient(line) ==
    IF startsWith(line, <<"O", "P", "_">>)
    THEN IF line \in OpcodeNames
         THEN [error |-> NoError, element |-> OpElement(OpcodeOf(line))]
         ELSE [error |-> NoError, element |-> OpElement(OP_0)]
    ELSE IF startsWith(line, <<"0", "x">>)
    THEN LET hexData == SubSeq(line, 3, Len(line))
         IN  IF Len(hexData) % 2 # 0
             THEN [error |-> ParseError("Invalid hex data", line), element |-> OpElement(0)]
             ELSE [error |-> NoError, element |-> DataElement(HexDecode(hexData))]
    ELSE IF IsDecimal(line)
    THEN LET num == parseInt(line)
         IN  IF Len(num) <= 1 /\ SmallValue(num) >= 1 /\ SmallValue(num) <= 16
             THEN [error |-> NoError, element |-> OpElement(OP_1 + SmallValue(num) - 1)]
             ELSE IF num = <<>>
             THEN [error |-> NoError, element |-> OpElement(OP_0)]
             ELSE [error |-> NoError, element |-> DataElement(numberEncode(num))]
    ELSE [error |-> ParseError("Cannot parse line", line), element |-> OpElement(0)]

\* one line of the for loop: either the element it pushes or the error thrown
ParseLine(line) ==
    IF startsWith(line, <<"O", "P", "_">>)
    THEN IF line \in OpcodeNames
         THEN [error |-> NoError, element |-> OpElement(OpcodeOf(line))]
         ELSE [error |-> ParseError("Unknown opcode", line), element |-> OpElement(0)]
    ELSE IF startsWith(line, <<"0", "x">>)
    THEN LET hexData == SubSeq(line, 3, Len(line))
         IN  IF Len(hexData) % 2 # 0
             THEN [error |-> ParseError("Invalid hex data", line), element |-> OpElement(0)]
             ELSE [error |-> NoError, element |-> DataElement(HexDecode(hexData))]
    ELSE IF IsDecimal(line)
    THEN LET num == parseInt(line)
         IN  IF Len(num) <= 1 /\ SmallValue(num) >= 1 /\ SmallValue(num) <= 16
             THEN [error |-> NoError, element |-> OpElement(OP_1 + SmallValue(num) - 1)]
             ELSE IF num = <<>>
             THEN [error |-> NoError, element |-> OpElement(OP_0)]
             ELSE [error |-> NoError, element |-> DataElement(numberEncode(num))]
    ELSE [error |-> ParseError("Cannot parse line", line), element |-> OpElement(0)]

RECURSIVE ParseLoop(_, _)
\* the for loop over the lines: stops at the first throw
ParseLoop(lines, scriptElements) ==
    IF lines = <<>>
    THEN [ok |-> TRUE, error |-> NoError, elements |-> scriptElements,
          bytes |-> compile(scriptElements)]
    ELSE LET r == ParseLine(Head(lines))
         IN  IF r.error # NoError
             THEN [ok |-> FALSE, error |-> r.error, elements |-> <<>>, bytes |-> <<>>]
             ELSE ParseLoop(Tail(lines), Append(scriptElements, r.element))

parseScript(text) == ParseLoop(SourceLines(text), <<>>)

NotParsed == [ok |-> FALSE, error |-> [kind |-> "not run", line |-> <<>>],
              elements |-> <<>>, bytes |-> <<>>]


(***************************************************************************)
(* Error messages are texts, so that the catch clause's includes() tests   *)
(* read what the message holds.                                            *)
(***************************************************************************)
MsgInsufficientUtxos ==
    <<"I", "n", "s", "u", "f", "f", "i", "c", "i", "e", "n", "t", " ", "U", "T", "X", "O", "s", " ", "t", "o", " ", "c", "o", "v", "e", "r", " ", "t", "h", "e", " ", "t", "a", "r", "g", "e", "t", " ", "a", "m", "o", "u", "n", "t">>

MsgUnknownOpcode == <<"U", "n", "k", "n", "o", "w", "n", " ", "o", "p", "c", "o", "d", "e", ":", " ">>

MsgInvalidHex == <<"I", "n", "v", "a", "l", "i", "d", " ", "h", "e", "x", " ", "d", "a", "t", "a", ":", " ">>

MsgCannotParse == <<"C", "a", "n", "n", "o", "t", " ", "p", "a", "r", "s", "e", " ", "l", "i", "n", "e", ":", " ">>

\* the message of the Error that parseScript throws
ErrorMessage(err) ==
    (CASE err.kind = "Unknown opcode" -> MsgUnknownOpcode
       [] err.kind = "Invalid hex data" -> MsgInvalidHex
       [] err.kind = "Cannot parse line" -> MsgCannotParse) \o err.line

DigitChars == <<"0", "1", "2", "3", "4", "5", "6", "7", "8", "9">>

RECURSIVE ToDecimal(_)
\* `${n}` of a non-negative integer
ToDecimal(n) ==
    IF n < 10 THEN <<DigitChars[n + 1]>>
    ELSE ToDecimal(n \div 10) \o <<DigitChars[(n % 10) + 1]>>

(***************************************************************************)
(* selectUtxos.  A UTXO is [txid, value]; the txid stands for txid:vout.   *)
(***************************************************************************)
Utxo(id, v) == [txid |-> id, value |-> v]

Values(utxos) == [i \in 1..Len(utxos) |-> utxos[i].value]

TotalOf(utxos) == SumSeq(Values(utxos))

RECURSIVE InsertDesc(_, _)
\* x goes behind every element that does not compare after it (stable)
InsertDesc(sorted, x) ==
    IF sorted = <<>> THEN <<x>>
    ELSE IF Head(sorted).value >= x.value
         THEN <<Head(sorted)>> \o InsertDesc(Tail(sorted), x)
         ELSE <<x>> \o sorted

RECURSIVE SortDescFrom(_, _)
SortDescFrom(sorted, rest) ==
    IF rest = <<>> THEN sorted
    ELSE SortDescFrom(InsertDesc(sorted, Head(rest)), Tail(rest))

\* a selector that takes the UTXOs in the order given
unsortedUtxos(utxos) == utxos

\* [...utxos].sort((a, b) => b.value - a.value)
sortedUtxos(utxos) == SortDescFrom(<<>>, utxos)

RECURSIVE SelectLoop(_, _, _, _)
\* for (const utxo of sortedUtxos) { if (totalValue >= targetAmount) break; ... }
SelectLoop(rest, selectedUtxos, totalValue, targetAmount) ==
    IF rest = <<>> \/ totalValue >= targetAmount
    THEN [selectedUtxos |-> selectedUtxos, totalValue |-> totalValue]
    ELSE SelectLoop(Tail(rest), Append(selectedUtxos, Head(rest)),
                    totalValue + Head(rest).value, targetAmount)

selectUtxos(utxos, targetAmount) ==
    LET r == SelectLoop(sortedUtxos(utxos), <<>>, 0, targetAmount)
    IN  IF r.totalValue < targetAmount
        THEN [status |-> "error", selectedUtxos |-> <<>>, totalValue |-> 0,
              message |-> MsgInsufficientUtxos]
        ELSE [status |-> "ok", selectedUtxos |-> r.selectedUtxos,
              totalValue |-> r.totalValue, message |-> <<>>]

MaxUtxos == 4

\* UTXO values and targets of the selector runs
SelValues == {100, 200, 300, 500}

SelTargets == {0, 100, 450, 900, 1000, 1100, 1200}

AsUtxos(vals) == [i \in 1..Len(vals) |-> Utxo(i, vals[i])]

(***************************************************************************)
(* Output derivation: payments.p2wsh({ redeem: { output } }).  SHA-256 and *)
(* bech32 are collision-free on the model's scripts, so the address is the *)
(* witness version and the hash of the script, the hash kept symbolic.     *)
(***************************************************************************)
sha256(bytes) == <<"sha256", bytes>>

p2wshAddress(script) == [hrp |-> "tb", version |-> 0, program |-> sha256(script)]

(***************************************************************************)
(* The API client (hooks/api) and the wallet address.                      *)
(***************************************************************************)
WalletAddress == "tb1q-wallet"

DustLimit == 546

RECURSIVE FilterDust(_)
\* utxos.filter((utxo) => utxo.value >= 546)
FilterDust(utxos) ==
    IF utxos = <<>> THEN <<>>
    ELSE IF Head(utxos).value >= DustLimit
         THEN <<Head(utxos)>> \o FilterDust(Tail(utxos))
         ELSE FilterDust(Tail(utxos))

\* what getUtxos(address) resolves to when the request succeeds
getUtxos(listed) == FilterDust(listed)

MsgFetchUtxosFailed == <<"F", "a", "i", "l", "e", "d", " ", "t", "o", " ", "f", "e", "t", "c", "h", " ", "U", "T", "X", "O", "s", ":", " ", "5", "0", "0", " ">>

MsgBroadcastFailed == <<"F", "a", "i", "l", "e", "d", " ", "t", "o", " ", "b", "r", "o", "a", "d", "c", "a", "s", "t", " ", "t", "r", "a", "n", "s", "a", "c", "t", "i", "o", "n", ":", " ", "4", "0", "0", " ">>

(***************************************************************************)
(* createScriptTransaction                                                 *)
(***************************************************************************)
estimatedFee == 1000

MsgNoUtxos == <<"N", "o", " ", "U", "T", "X", "O", "s", " ", "a", "v", "a", "i", "l", "a", "b", "l", "e", ".", " ", "M", "a", "k", "e", " ", "s", "u", "r", "e", " ", "y", "o", "u", "r", " ", "w", "a", "l", "l", "e", "t", " ", "h", "a", "s", " ", "t", "e", "s", "t", "n", "e", "t", " ", "B", "i", "t", "c", "o", "i", "n", ".">>

MsgInsufficientFunds(totalAvailable, totalNeeded) ==
    <<"I", "n", "s", "u", "f", "f", "i", "c", "i", "e", "n", "t", " ", "f", "u", "n", "d", "s", ":", " ", "h", "a", "v", "e", " ">> \o ToDecimal(totalAvailable)
      \o <<",", " ", "n", "e", "e", "d", " ">> \o ToDecimal(totalNeeded)

MsgInsufficientFundsGeneric ==
    <<"I", "n", "s", "u", "f", "f", "i", "c", "i", "e", "n", "t", " ", "f", "u", "n", "d", "s", ".", " ", "M", "a", "k", "e", " ", "s", "u", "r", "e", " ", "y", "o", "u", " ", "h", "a", "v", "e", " ", "e", "n", "o", "u", "g", "h", " ", "t", "e", "s", "t", "n", "e", "t", " ", "B", "i", "t", "c", "o", "i", "n", " ", "p", "l", "u", "s", " ", "f", "e", "e", ".">>

MsgScriptParsingError == <<"S", "c", "r", "i", "p", "t", " ", "p", "a", "r", "s", "i", "n", "g", " ", "e", "r", "r", "o", "r", ":", " ">>

MsgFetchUtxosGeneric ==
    <<"F", "a", "i", "l", "e", "d", " ", "t", "o", " ", "f", "e", "t", "c", "h", " ", "U", "T", "X", "O", "s", ".", " ", "C", "h", "e", "c", "k", " ", "y", "o", "u", "r", " ", "i", "n", "t", "e", "r", "n", "e", "t", " ", "c", "o", "n", "n", "e", "c", "t", "i", "o", "n", " ", "a", "n", "d", " ", "w", "a", "l", "l", "e", "t", " ", "a", "d", "d", "r", "e", "s", "s", ".">>

MsgBroadcastGeneric ==
    <<"F", "a", "i", "l", "e", "d", " ", "t", "o", " ", "b", "r", "o", "a", "d", "c", "a", "s", "t", " ", "t", "r", "a", "n", "s", "a", "c", "t", "i", "o", "n", ".", " ", "T", "h", "e", " ", "t", "r", "a", "n", "s", "a", "c", "t", "i", "o", "n", " ", "m", "a", "y", " ", "b", "e", " ", "i", "n", "v", "a", "l", "i", "d", ".">>

MsgFailedToAddUtxo == <<"F", "a", "i", "l", "e", "d", " ", "t", "o", " ", "a", "d", "d", " ", "U", "T", "X", "O", " ">>

MsgUnisatMissing == <<"U", "n", "i", "S", "a", "t", " ", "w", "a", "l", "l", "e", "t", " ", "n", "o", "t", " ", "a", "v", "a", "i", "l", "a", "b", "l", "e">>

MsgUserRejected == <<"U", "s", "e", "r", " ", "r", "e", "j", "e", "c", "t", "e", "d", " ", "t", "h", "e", " ", "r", "e", "q", "u", "e", "s", "t", ".">>

MsgNotFinalized == <<"N", "o", "t", " ", "f", "i", "n", "a", "l", "i", "z", "e", "d">>

\* the catch clause of createScriptTransaction: the message of the error it
\* throws for a caught error with message msg
Rethrown(msg) ==
    IF includes(msg, <<"I", "n", "s", "u", "f", "f", "i", "c", "i", "e", "n", "t", " ", "f", "u", "n", "d", "s">>)
    THEN MsgInsufficientFundsGeneric
    ELSE IF includes(msg, <<"U", "n", "k", "n", "o", "w", "n", " ", "o", "p", "c", "o", "d", "e">>)
    THEN MsgScriptParsingError \o msg
    ELSE IF includes(msg, <<"F", "a", "i", "l", "e", "d", " ", "t", "o", " ", "f", "e", "t", "c", "h", " ", "U", "T", "X", "O", "s">>)
    THEN MsgFetchUtxosGeneric
    ELSE IF includes(msg, <<"F", "a", "i", "l", "e", "d", " ", "t", "o", " ", "b", "r", "o", "a", "d", "c", "a", "s", "t">>)
    THEN MsgBroadcastGeneric
    ELSE msg

\* ScriptSchema of the form: a non-empty script and an amount of at least 546
ScriptSchemaValid(code, amount) ==
    /\ code # <<>>
    /\ code # <<<<>>>>
    /\ amount > 0
    /\ amount >= 546

EmptyPsbt == [inputs |-> <<>>, outputs |-> <<>>]

TxOutput(addr, v) == [address |-> addr, value |-> v]

\* a builder that never adds a change output
ChangeOutputsNever(changeAmount) == <<>>

\* a builder that pays out every positive leftover
ChangeOutputsAnyLeftover(changeAmount) ==
    IF changeAmount > 0 THEN <<TxOutput(WalletAddress, changeAmount)>> ELSE <<>>

\* if (changeAmount >= 546) psbt.addOutput({ address: walletAddress, ... })
ChangeOutputs(changeAmount) ==
    IF changeAmount >= 546 THEN <<TxOutput(WalletAddress, changeAmount)>> ELSE <<>>

\* the call ends in the catch clause with the error msg
FundFails(msg) ==
    /\ fpc' = "failed"
    /\ fError' = Rethrown(msg)

\* handleSubmit calls createScriptTransaction(scriptCode, amount, ...): it
\* runs up to its first await, the UTXO request
FundStart ==
    /\ fpc = "idle"
    /\ ScriptSchemaValid(scriptText, fAmount)
    /\ parsed' = parseScript(scriptText)
    /\ IF ~parsed'.ok
       THEN /\ FundFails(ErrorMessage(parsed'.error))
            /\ UNCHANGED <<fAddress, fTrace>>
       ELSE /\ fAddress' = p2wshAddress(parsed'.bytes)
            /\ fTrace' = <<"p2wsh", "getUtxos">>
            /\ fpc' = "getUtxos"
            /\ UNCHANGED fError
    /\ UNCHANGED <<scriptText, baseText, baseParsed, edits, selVars, witnessVars, tabVars, formVars, markVars,
                   envVars, unlockVars, fAmount,
                   fSelected, fTotalValue, fChange, fPsbt, fIndex, fResult>>

\* getUtxos(walletAddress) settles; the balance check and the selection follow
FundUtxosReturned ==
    /\ fpc = "getUtxos"
    /\ \E ok \in BOOLEAN :
          LET utxos == getUtxos(chainWalletUtxos)
              totalNeeded == fAmount + estimatedFee
              totalAvailable == TotalOf(utxos)
              sel == selectUtxos(utxos, totalNeeded)
          IN  IF ~ok
              THEN /\ FundFails(MsgFetchUtxosFailed)
                   /\ UNCHANGED <<fSelected, fTotalValue, fChange, fPsbt, fIndex, fTrace>>
              ELSE IF utxos = <<>>
              THEN /\ FundFails(MsgNoUtxos)
                   /\ UNCHANGED <<fSelected, fTotalValue, fChange, fPsbt, fIndex, fTrace>>
              ELSE IF totalAvailable < totalNeeded
              THEN /\ FundFails(MsgInsufficientFunds(totalAvailable, totalNeeded))
                   /\ UNCHANGED <<fSelected, fTotalValue, fChange, fPsbt, fIndex, fTrace>>
              ELSE IF sel.status = "error"
              THEN /\ FundFails(sel.message)
                   /\ UNCHANGED <<fSelected, fTotalValue, fChange, fPsbt, fIndex, fTrace>>
              ELSE /\ fSelected' = sel.selectedUtxos
                   /\ fTotalValue' = sel.totalValue
                   /\ fChange' = sel.totalValue - fAmount - estimatedFee
                   /\ fPsbt' = EmptyPsbt
                   /\ fIndex' = 1
                   /\ fTrace' = Append(fTrace, "fetchTx")
                   /\ fpc' = "fetchTx"
                   /\ UNCHANGED fError
    /\ UNCHANGED <<parseVars, selVars, witnessVars, tabVars, formVars, markVars,
                   envVars, unlockVars, fAmount, fAddress, fResult>>

\* the transaction of selectedUtxos[fIndex] is fetched and the input added;
\* after the last input the outputs are added and the signer is called
FundInputResolved ==
    /\ fpc = "fetchTx"
    /\ \E ok \in BOOLEAN :
          IF ~ok
          THEN /\ FundFails(MsgFailedToAddUtxo)
               /\ UNCHANGED <<fPsbt, fIndex, fTrace>>
          ELSE LET inputs == Append(fPsbt.inputs, fSelected[fIndex])
                   outputs == <<TxOutput(fAddress, fAmount)>> \o ChangeOutputs(fChange)
               IN  IF fIndex < Len(fSelected)
                   THEN /\ fPsbt' = [fPsbt EXCEPT !.inputs = inputs]
                        /\ fIndex' = fIndex + 1
                        /\ fTrace' = Append(fTrace, "fetchTx")
                        /\ UNCHANGED <<fpc, fError>>
                   ELSE /\ fPsbt' = [inputs |-> inputs, outputs |-> outputs]
                        /\ UNCHANGED fIndex
                        /\ IF ~unisat
                           THEN FundFails(MsgUnisatMissing) /\ UNCHANGED fTrace
                           ELSE /\ fpc' = "signPsbt"
                                /\ fTrace' = Append(fTrace, "signPsbt")
                                /\ UNCHANGED fError
    /\ UNCHANGED <<parseVars, selVars, witnessVars, tabVars, formVars, markVars,
                   envVars, unlockVars, fAmount, fAddress, fSelected,
                   fTotalValue, fChange, fResult>>

\* window.unisat.signPsbt settles: the user rejects, or the wallet returns the
\* PSBT with its inputs finalized or not; extractTransaction needs them
\* finalized; the transaction is handed to pushTx
FundSigned ==
    /\ fpc = "signPsbt"
    /\ \E outcome \in {"rejected", "unfinalized", "finalized"} :
          IF outcome = "rejected"
          THEN /\ FundFails(MsgUserRejected)
               /\ UNCHANGED <<fTrace, broadcasts>>
          ELSE IF outcome = "unfinalized"
          THEN /\ FundFails(MsgNotFinalized)
               /\ UNCHANGED <<fTrace, broadcasts>>
          ELSE /\ fTrace' = fTrace \o <<"extractTransaction", "pushTx">>
               /\ broadcasts' = Append(broadcasts,
                                       [kind |-> "fund", path |-> "primary",
                                        inputs |-> fPsbt.inputs, outputs |-> fPsbt.outputs])
               /\ fpc' = "pushTx"
               /\ UNCHANGED fError
    /\ UNCHANGED <<parseVars, selVars, witnessVars, tabVars, formVars, markVars, unlockVars, chainWalletUtxos,
                   chainScriptUtxos,
                   localStorage, unisat, txCount, fAmount, fAddress, fSelected, fTotalValue, fChange,
                   fPsbt, fIndex, fResult>>

NewTxid == 100 + txCount

RECURSIVE Without(_, _)
\* the listed UTXOs that are not among spent
Without(listed, spent) ==
    IF listed = <<>> THEN <<>>
    ELSE IF \E i \in 1..Len(spent) : spent[i].txid = Head(listed).txid
         THEN Without(Tail(listed), spent)
         ELSE <<Head(listed)>> \o Without(Tail(listed), spent)

HexChars == <<"0", "1", "2", "3", "4", "5", "6", "7", "8", "9", "a", "b", "c", "d", "e", "f">>

RECURSIVE toHex(_)
\* buffer.toString("hex")
toHex(bytes) ==
    IF bytes = <<>> THEN <<>>
    ELSE <<HexChars[(Head(bytes) \div 16) + 1], HexChars[(Head(bytes) % 16) + 1]>>
           \o toHex(Tail(bytes))

\* getTrackedScripts(): the stored array
getTrackedScripts(store) == store

RECURSIVE WithoutAddress(_, _)
WithoutAddress(scripts, scriptAddress) ==
    IF scripts = <<>> THEN <<>>
    ELSE IF Head(scripts).scriptAddress = scriptAddress
         THEN WithoutAddress(Tail(scripts), scriptAddress)
         ELSE <<Head(scripts)>> \o WithoutAddress(Tail(scripts), scriptAddress)

\* a save that keeps one record per script address
saveDeduplicating(store, script) ==
    Append(WithoutAddress(store, script.scriptAddress), script)

\* a save that writes the new record over the stored array
saveOverwriting(store, script) == <<script>>

\* saveTrackedScript(script): the array that is written back
saveTrackedScript(store, script) == Append(getTrackedScripts(store), script)

\* pushTx settles: on success the record of the script is saved
FundBroadcast ==
    /\ fpc = "pushTx"
    /\ \E ok \in BOOLEAN :
          IF ~ok
          THEN /\ FundFails(MsgBroadcastFailed)
               /\ UNCHANGED <<fTrace, fResult, chainWalletUtxos, chainScriptUtxos,
                              localStorage, txCount>>
          ELSE LET txid == NewTxid
                   trackedScript ==
                       [id |-> <<txid, 0>>,
                        scriptAddress |-> fAddress,
                        originalScript |-> scriptText,
                        compiledScript |-> toHex(parsed.bytes),
                        createdAt |-> txCount + 1,
                        createdBy |-> WalletAddress,
                        fundingTxid |-> txid,
                        amount |-> fAmount,
                        isSpent |-> FALSE]
               IN  /\ txCount' = txCount + 1
                   /\ chainWalletUtxos' =
                        Without(chainWalletUtxos, fPsbt.inputs)
                          \o (IF Len(fPsbt.outputs) > 1
                              THEN <<Utxo(txid, fPsbt.outputs[2].value)>> ELSE <<>>)
                   /\ chainScriptUtxos' =
                        Append(chainScriptUtxos,
                               [txid |-> txid, value |-> fPsbt.outputs[1].value,
                                address |-> fPsbt.outputs[1].address])
                   /\ localStorage' = saveTrackedScript(localStorage, trackedScript)
                   /\ fTrace' = Append(fTrace, "saveTrackedScript")
                   /\ fResult' = [txid |-> txid, scriptAddress |-> fAddress]
                   /\ fpc' = "done"
                   /\ UNCHANGED fError
    /\ UNCHANGED <<parseVars, selVars, witnessVars, tabVars, formVars, markVars,
                   unlockVars, unisat, broadcasts, fAmount, fAddress, fSelected,
                   fTotalValue, fChange, fPsbt, fIndex>>

(***************************************************************************)
(* Script registry: markScriptAsSpent, getTrackedScriptsByWallet.          *)
(***************************************************************************)
\* a record that another wallet's funding left in this browser's registry
PriorRecord ==
    [id |-> <<7, 0>>,
     scriptAddress |-> p2wshAddress(<<OP_1>>),
     originalScript |-> <<<<"O", "P", "_", "1">>>>,
     compiledScript |-> <<"5", "1">>,
     createdAt |-> 0,
     createdBy |-> "tb1q-other",
     fundingTxid |-> 7,
     amount |-> 600,
     isSpent |-> FALSE]

(***************************************************************************)
(* ScriptBuilder preview: parseScriptCode and analyzeScript.               *)
(***************************************************************************)
\* the loop body of parseScriptCode: every element is pushed as a Buffer,
\* an opcode as the one-byte Buffer.from([OPS[name]])
PreviewLine(line) ==
    IF startsWith(line, <<"0", "x">>)
    THEN LET hex == SubSeq(line, 3, Len(line))
         IN  IF Len(hex) % 2 = 0 /\ hex # <<>> /\ \A i \in 1..Len(hex) : hex[i] \in HexDigits
             THEN [error |-> NoError, element |-> DataElement(HexDecode(hex))]
             ELSE [error |-> ParseError("Invalid hex data", line), element |-> OpElement(0)]
    ELSE IF IsDecimal(line)
    THEN [error |-> NoError, element |-> DataElement(numberEncode(parseInt(line)))]
    ELSE IF startsWith(line, <<"O", "P", "_">>)
    THEN IF line \in OpcodeNames
         THEN [error |-> NoError, element |-> DataElement(<<OpcodeOf(line)>>)]
         ELSE [error |-> ParseError("Unknown opcode", line), element |-> OpElement(0)]
    ELSE [error |-> ParseError("Cannot parse line", line), element |-> OpElement(0)]

RECURSIVE PreviewLoop(_, _)
PreviewLoop(lines, els) ==
    IF lines = <<>> THEN [ok |-> TRUE, bytes |-> compile(els)]
    ELSE LET r == PreviewLine(Head(lines))
         IN  IF r.error # NoError THEN [ok |-> FALSE, bytes |-> <<>>]
             ELSE PreviewLoop(Tail(lines), Append(els, r.element))

\* parseScriptCode(scriptCode): null (ok = FALSE) for a blank source and
\* for a source with a line that throws
parseScriptCode(scriptCode) ==
    IF \A i \in 1..Len(scriptCode) : trim(scriptCode[i]) = <<>>
    THEN [ok |-> FALSE, bytes |-> <<>>]
    ELSE PreviewLoop(SourceLines(scriptCode), <<>>)

\* SCRIPT_TEMPLATES.find((t) => t.id === selectedTemplate)?.scriptType
TemplateScriptType(selectedTemplate) ==
    IF selectedTemplate = "taproot-hashlock" THEN "P2TR" ELSE "undefined"

NoAddress == [hrp |-> "", version |-> 0, program |-> <<>>]

p2trAddress(script) == [hrp |-> "tb", version |-> 1, program |-> <<"taptree", script>>]

NoPreview ==
    [isValid |-> FALSE, scriptType |-> "not run", address |-> NoAddress,
     compiledScript |-> <<>>, isTaproot |-> FALSE]

\* analyzeScript(scriptCode); p2tr is what payments.p2tr does when it is
\* given a script tree and no key: it throws, or yields a payment with or
\* without an address
analyzeScript(scriptCode, selectedTemplate, p2tr) ==
    LET compiledScript == parseScriptCode(scriptCode)
        isTaproot ==
            \/ TemplateScriptType(selectedTemplate) = "P2TR"
            \/ \E i \in 1..Len(scriptCode) : includes(scriptCode[i], <<"/", "/", " ", "T", "a", "p", "r", "o", "o", "t">>)
    IN  IF ~compiledScript.ok
        THEN [NoPreview EXCEPT !.scriptType = "Invalid"]
        ELSE [isValid |-> TRUE,
              scriptType |-> IF ~isTaproot THEN "P2WSH"
                             ELSE IF p2tr = "throws" THEN "P2WSH (Taproot fallback)"
                             ELSE "P2TR",
              address |-> IF ~isTaproot \/ p2tr = "throws"
                          THEN p2wshAddress(compiledScript.bytes)
                          ELSE IF p2tr = "address" THEN p2trAddress(compiledScript.bytes)
                          ELSE NoAddress,
              compiledScript |-> toHex(compiledScript.bytes),
              isTaproot |-> isTaproot]

\* ScriptBuilder after mount: useState("prepare"), useState(false), no
\* timer set; now counts half seconds
FormIdle ==
    [pc |-> "idle", currentStep |-> "prepare", loading |-> FALSE, timers |-> {},
     outcome |-> "none", submits |-> 0, now |-> 0,
     selectedTemplate |-> "none", preview |-> NoPreview]

\* one registry call of a tab: save a record, or mark an address spent
SaveOp(script) == [kind |-> "save", script |-> script, scriptAddress |-> script.scriptAddress]
MarkOp(scriptAddress) ==
    [kind |-> "mark", script |-> PriorRecord, scriptAddress |-> scriptAddress]

\* a tab that is in no registry call; existingScripts is what its call read
TabIdle == [pc |-> "idle", op |-> MarkOp(p2wshAddress(<<>>)), existingScripts |-> <<>>,
            log |-> <<>>]

\* base is the stored array before any call of the two tabs
TabsIdle == [base |-> <<>>, tab |-> <<TabIdle, TabIdle>>]

\* a marking that flips the flag of the records at the address
markToggling(store, scriptAddress) ==
    [i \in 1..Len(getTrackedScripts(store)) |->
        IF store[i].scriptAddress = scriptAddress
        THEN [store[i] EXCEPT !.isSpent = ~@] ELSE store[i]]

\* markScriptAsSpent(scriptAddress): the array that is written back
markScriptAsSpent(store, scriptAddress) ==
    [i \in 1..Len(getTrackedScripts(store)) |->
        IF store[i].scriptAddress = scriptAddress
        THEN [store[i] EXCEPT !.isSpent = TRUE] ELSE store[i]]

RECURSIVE FilterByWallet(_, _)
FilterByWallet(scripts, walletAddress) ==
    IF scripts = <<>> THEN <<>>
    ELSE IF Head(scripts).createdBy = walletAddress
         THEN <<Head(scripts)>> \o FilterByWallet(Tail(scripts), walletAddress)
         ELSE FilterByWallet(Tail(scripts), walletAddress)

getTrackedScriptsByWallet(store, walletAddress) ==
    FilterByWallet(getTrackedScripts(store), walletAddress)

(***************************************************************************)
(* ScriptManager.loadScripts                                               *)
(***************************************************************************)
RECURSIVE UtxosAt(_, _)
\* the chain's unspent outputs at an address, as [txid, value]
UtxosAt(listed, addr) ==
    IF listed = <<>> THEN <<>>
    ELSE IF Head(listed).address = addr
         THEN <<Utxo(Head(listed).txid, Head(listed).value)>> \o UtxosAt(Tail(listed), addr)
         ELSE UtxosAt(Tail(listed), addr)

\* a tracked script with the UTXOs found at its address
ScriptUtxoOf(script, utxos) ==
    [id |-> script.id, scriptAddress |-> script.scriptAddress,
     originalScript |-> script.originalScript, compiledScript |-> script.compiledScript,
     createdAt |-> script.createdAt, createdBy |-> script.createdBy,
     fundingTxid |-> script.fundingTxid, amount |-> script.amount,
     isSpent |-> script.isSpent,
     utxos |-> utxos, balance |-> TotalOf(utxos), unlockTxid |-> 0]

\* the comparator of results.sort: a goes in front of b
SortsBefore(a, b) ==
    LET aHasUtxos == a.utxos # <<>> /\ ~a.isSpent
        bHasUtxos == b.utxos # <<>> /\ ~b.isSpent
    IN  IF aHasUtxos /\ ~bHasUtxos THEN TRUE
        ELSE IF ~aHasUtxos /\ bHasUtxos THEN FALSE
        ELSE b.createdAt - a.createdAt < 0

RECURSIVE InsertScript(_, _)
InsertScript(sorted, x) ==
    IF sorted = <<>> THEN <<x>>
    ELSE IF SortsBefore(x, Head(sorted)) THEN <<x>> \o sorted
         ELSE <<Head(sorted)>> \o InsertScript(Tail(sorted), x)

RECURSIVE SortScripts(_, _)
SortScripts(sorted, rest) ==
    IF rest = <<>> THEN sorted
    ELSE SortScripts(InsertScript(sorted, Head(rest)), Tail(rest))

\* the list loadScripts puts into the component state; failed holds the
\* positions whose UTXO request failed (they get no UTXOs)
loadScripts(store, chain, failed) ==
    LET trackedScripts == getTrackedScriptsByWallet(store, WalletAddress)
        results == [i \in 1..Len(trackedScripts) |->
                       ScriptUtxoOf(trackedScripts[i],
                                    IF i \in failed THEN <<>>
                                    ELSE getUtxos(UtxosAt(chain, trackedScripts[i].scriptAddress)))]
    IN  SortScripts(<<>>, results)

(***************************************************************************)
(* unlockScript: the conversion of the witness items and the witness stack *)
(***************************************************************************)
\* the printable ASCII characters, from code 32 on (the quote, the backslash
\* and the backtick stand under their names)
AsciiTable ==
    << " ", "!", "quote", "#", "$", "%", "&", "'", "(", ")", "*", "+", ",", "-", ".", "/",
       "0", "1", "2", "3", "4", "5", "6", "7", "8", "9", ":", ";", "<", "=", ">", "?",
       "@", "A", "B", "C", "D", "E", "F", "G", "H", "I", "J", "K", "L", "M", "N", "O",
       "P", "Q", "R", "S", "T", "U", "V", "W", "X", "Y", "Z", "[", "backslash", "]", "^", "_",
       "backtick", "a", "b", "c", "d", "e", "f", "g", "h", "i", "j", "k", "l", "m", "n", "o",
       "p", "q", "r", "s", "t", "u", "v", "w", "x", "y", "z", "{", "|", "}", "~" >>

\* the UTF-8 byte of an ASCII character
charCode(c) == 31 + CHOOSE i \in 1..Len(AsciiTable) : AsciiTable[i] = c

\* Buffer.from(item, "utf8") on ASCII text
utf8Bytes(text) == [i \in 1..Len(text) |-> charCode(text[i])]

\* one item of witnessData.map((item) => ...)
witnessItem(item) ==
    IF startsWith(item, <<"0", "x">>)
    THEN HexDecode(SubSeq(item, 3, Len(item)))
    ELSE IF item = <<"O", "P", "_", "T", "R", "U", "E">> \/ item = <<"1">>
    THEN <<1>>
    ELSE IF item = <<"O", "P", "_", "F", "A", "L", "S", "E">> \/ item = <<"0">>
    THEN <<>>
    ELSE IF IsDecimal(item)
    THEN numberEncode(parseInt(item))
    ELSE utf8Bytes(item)

RECURSIVE cleanInputs(_)
\* handleUnlock: witnessInputs.filter((input) => input.trim() !== "")
cleanInputs(inputs) ==
    IF inputs = <<>> THEN <<>>
    ELSE IF trim(Head(inputs)) # <<>>
         THEN <<Head(inputs)>> \o cleanInputs(Tail(inputs))
         ELSE cleanInputs(Tail(inputs))

\* const witnessStack = [...witnessStackData, Buffer.from(compiledScript)]
witnessStackOf(items, compiledScript) ==
    [i \in 1..Len(items) |-> witnessItem(items[i])] \o <<compiledScript>>

RECURSIVE ConcatItems(_)
\* each item of the stack behind its length byte
ConcatItems(stack) ==
    IF stack = <<>> THEN <<>>
    ELSE <<Len(Head(stack))>> \o Head(stack) \o ConcatItems(Tail(stack))

\* finalScriptWitness: the number of items, then the items with their
\* lengths (every item of the model is shorter than 253 bytes)
finalScriptWitness(stack) == <<Len(stack)>> \o ConcatItems(stack)

(***************************************************************************)
(* ScriptManager.unlockScript.  The call's locals are the record u; the    *)
(* operators below are the stretches of code between two awaits.           *)
(***************************************************************************)
\* the number of unlockScript calls of a run
MaxUnlockCalls == 1

\* what the witness fields of the unlock form hold at the click: nothing,
\* or a preimage and a number behind an empty field
UnlockWitnessInputs ==
    { <<<<>>>>,
      <<<<>>, <<"h", "e", "l", "l", "o">>, <<"1", "7">>>> }

unlockEstimatedFee == 1500

minRelayFee == 300

Max(a, b) == IF a >= b THEN a ELSE b

actualMinFee == Max(unlockEstimatedFee, minRelayFee)

MsgNoScriptUtxos == <<"N", "o", " ", "U", "T", "X", "O", "s", " ", "f", "o", "u", "n", "d", " ", "a", "t", " ", "t", "h", "i", "s", " ", "s", "c", "r", "i", "p", "t", " ", "a", "d", "d", "r", "e", "s", "s">>

MsgNoPublicKey == <<"F", "a", "i", "l", "e", "d", " ", "t", "o", " ", "g", "e", "t", " ", "p", "u", "b", "l", "i", "c", " ", "k", "e", "y">>

MsgAddressMismatch == <<"S", "c", "r", "i", "p", "t", " ", "a", "d", "d", "r", "e", "s", "s", " ", "m", "i", "s", "m", "a", "t", "c", "h">>

MsgNoWalletUtxos == <<"N", "o", " ", "w", "a", "l", "l", "e", "t", " ", "U", "T", "X", "O", "s", " ", "a", "v", "a", "i", "l", "a", "b", "l", "e", " ", "t", "o", " ", "c", "o", "v", "e", "r", " ", "t", "r", "a", "n", "s", "a", "c", "t", "i", "o", "n", " ", "f", "e", "e">>

MsgFailedToFetch == <<"F", "a", "i", "l", "e", "d", " ", "t", "o", " ", "f", "e", "t", "c", "h">>

MsgUnlockInsufficient(need, have) ==
    <<"I", "n", "s", "u", "f", "f", "i", "c", "i", "e", "n", "t", " ", "f", "u", "n", "d", "s", ":", " ", "n", "e", "e", "d", " ">> \o ToDecimal(need) \o <<" ", "s", "a", "t", "s", ",", " ", "h", "a", "v", "e", " ">>
      \o ToDecimal(have) \o <<" ", "s", "a", "t", "s">>

MsgOutputTooSmall == <<"O", "u", "t", "p", "u", "t", " ", "t", "o", "o", " ", "s", "m", "a", "l", "l">>

MsgFeeTooLow == <<"F", "e", "e", " ", "t", "o", "o", " ", "l", "o", "w">>

MsgFallbackPrefix == <<"F", "a", "l", "l", "b", "a", "c", "k", ":", " ">>

UnlockIdle ==
    [pc |-> "idle", script |-> ScriptUtxoOf(
                        [id |-> <<0, 0>>, scriptAddress |-> p2wshAddress(<<>>),
                         originalScript |-> <<>>, compiledScript |-> <<>>, createdAt |-> 0,
                         createdBy |-> "", fundingTxid |-> 0, amount |-> 0,
                         isSpent |-> FALSE], <<>>),
     inputs |-> <<>>, outputs |-> <<>>, totalInput |-> 0, walletUtxosNeeded |-> 0,
     sponsored |-> FALSE, finalOutput |-> 0, path |-> "primary", error |-> <<>>,
     trace |-> <<>>, unlockTxid |-> 0, calls |-> 0, witnessData |-> <<>>]

PsbtInput(utxo, kind, finalized) ==
    [txid |-> utxo.txid, value |-> utxo.value, kind |-> kind, finalized |-> finalized,
     witness |-> <<>>]

\* the catch clause of unlockScript: the error is shown, nothing is rethrown
UnlockFails(st, msg) == [st EXCEPT !.pc = "failed", !.error = msg]

\* an unlock that takes every stored script for the one at its address
addressNeverMismatches(address, scriptAddress) == FALSE

\* if (!p2wsh.address || p2wsh.address !== script.scriptAddress)
addressMismatch(address, scriptAddress) == address # scriptAddress

\* a decision that looks at the fee only, not at the dust floor
needsSponsorshipForFeeOnly(singleUtxoValue) == singleUtxoValue < actualMinFee

\* const needsWalletSponsorship = singleUtxoValue < actualMinFee || wouldBeOutput < 546
needsWalletSponsorship(singleUtxoValue) ==
    LET wouldBeOutput == singleUtxoValue - actualMinFee
    IN  singleUtxoValue < actualMinFee \/ wouldBeOutput < 546

\* script.originalScript.includes("OP_CHECKSIG") || ... on the stored source
scriptNeedsSignatures(originalScript) ==
    \E i \in 1..Len(originalScript) :
        \/ includes(originalScript[i], <<"O", "P", "_", "C", "H", "E", "C", "K", "S", "I", "G">>)
        \/ includes(originalScript[i], <<"O", "P", "_", "C", "H", "E", "C", "K", "M", "U", "L", "T", "I", "S", "I", "G">>)
        \/ includes(originalScript[i], <<"O", "P", "_", "C", "H", "E", "C", "K", "D", "A", "T", "A", "S", "I", "G">>)

\* a signing decision that looks at the wallet inputs only
needsWalletSigningForInputsOnly(walletUtxosNeeded, needsSignatures) == walletUtxosNeeded > 0

\* const needsWalletSigning = walletUtxosNeeded > 0 || scriptNeedsSignatures
needsWalletSigning(walletUtxosNeeded, needsSignatures) ==
    walletUtxosNeeded > 0 \/ needsSignatures

\* an output that hands back the wallet's inputs and leaves the script value
\* to the fee
finalOutputOfWalletOnly(singleUtxoValue, totalInput, walletUtxosNeeded) ==
    IF walletUtxosNeeded > 0
    THEN totalInput - singleUtxoValue
    ELSE singleUtxoValue - Max(unlockEstimatedFee, minRelayFee)

\* an output that returns the script value and leaves all the wallet put
\* in to the fee
finalOutputOfNoChange(singleUtxoValue, totalInput, walletUtxosNeeded) ==
    IF walletUtxosNeeded > 0
    THEN singleUtxoValue
    ELSE singleUtxoValue - Max(unlockEstimatedFee, minRelayFee)

\* the output value of the primary path
finalOutputOf(singleUtxoValue, totalInput, walletUtxosNeeded) ==
    LET actualFee == Max(unlockEstimatedFee, minRelayFee)
    IN  IF walletUtxosNeeded > 0
        THEN LET walletChange == totalInput - singleUtxoValue - actualFee
             IN  singleUtxoValue + Max(0, walletChange)
        ELSE singleUtxoValue - actualFee

\* the two checks in front of addOutput: the message thrown, or <<>>
outputChecks(finalOutput, actualUsedFee) ==
    IF finalOutput < 546 THEN MsgOutputTooSmall
    ELSE IF actualUsedFee < minRelayFee THEN MsgFeeTooLow
    ELSE <<>>

\* a fallback that checks the dust floor only
fallbackChecksDustOnly(finalOutput, fallbackActualFee) ==
    IF finalOutput < 546 THEN MsgFallbackPrefix \o MsgOutputTooSmall ELSE <<>>

\* the same two checks of the fallback path
fallbackChecks(finalOutput, fallbackActualFee) ==
    IF finalOutput < 546 THEN MsgFallbackPrefix \o MsgOutputTooSmall
    ELSE IF fallbackActualFee < minRelayFee THEN MsgFallbackPrefix \o MsgFeeTooLow
    ELSE <<>>

\* psbt.extractTransaction() succeeds only on a PSBT whose inputs are all
\* finalized
AllFinalized(inputs) == \A i \in 1..Len(inputs) : inputs[i].finalized

RECURSIVE SponsorLoop(_, _, _, _, _)
\* for (const walletUtxo of walletUtxos) { if (added >= shortfall) break; ... }
\* fetched holds the positions whose transaction request succeeds; the
\* others are skipped.  Yields the wallet UTXOs added as inputs.
SponsorLoop(walletUtxos, i, fetched, shortfall, added) ==
    IF i > Len(walletUtxos) \/ TotalOf(added) >= shortfall THEN added
    ELSE IF i \in fetched
         THEN SponsorLoop(walletUtxos, i + 1, fetched, shortfall, Append(added, walletUtxos[i]))
         ELSE SponsorLoop(walletUtxos, i + 1, fetched, shortfall, added)

AsWalletInputs(utxos) == [i \in 1..Len(utxos) |-> PsbtInput(utxos[i], "wallet", FALSE)]

\* the transaction handed to pushTx
UnlockTx(st) ==
    [kind |-> "unlock", path |-> st.path, inputs |-> st.inputs, outputs |-> st.outputs]

\* const shortfall = estimatedFee - singleUtxoValue + 546 of the fallback
fallbackShortfall(singleUtxoValue) == unlockEstimatedFee - singleUtxoValue + 546

\* the fallback from the fee computation to extractTransaction, on the
\* inputs of simplePsbt
FallbackFinish(st, simpleInputs, extractOk) ==
    LET singleUtxoValue == st.script.utxos[1].value
        actualFee == Max(unlockEstimatedFee, minRelayFee)
        finalOutput ==
            IF st.walletUtxosNeeded > 0
            THEN LET fallbackTotalInput == singleUtxoValue + st.walletUtxosNeeded
                     walletChange == fallbackTotalInput - singleUtxoValue - actualFee
                 IN  singleUtxoValue + Max(0, walletChange)
            ELSE singleUtxoValue - actualFee
        fallbackTotalInput == SumSeq([i \in 1..Len(simpleInputs) |-> simpleInputs[i].value])
        fallbackActualFee == fallbackTotalInput - finalOutput
        check == fallbackChecks(finalOutput, fallbackActualFee)
        witnessStackData == witnessStackOf(st.witnessData, HexDecode(st.script.compiledScript))
        \* scriptInput.finalScriptWitness = ... on input 0 only
        witnessed == [simpleInputs EXCEPT ![1].finalized = TRUE,
                                          ![1].witness = finalScriptWitness(witnessStackData)]
        built == [st EXCEPT !.path = "fallback", !.inputs = witnessed,
                            !.finalOutput = finalOutput, !.totalInput = fallbackTotalInput,
                            !.outputs = <<TxOutput(WalletAddress, finalOutput)>>]
    IN  IF check # <<>> THEN UnlockFails([st EXCEPT !.path = "fallback"], check)
        ELSE IF ~AllFinalized(witnessed) \/ ~extractOk THEN UnlockFails(built, MsgNotFinalized)
        ELSE [built EXCEPT !.pc = "pushTx",
                           !.trace = @ \o <<"extractTransaction", "pushTx">>]

\* from the witness of the script input to pushTx: finalizeInput(0, ...),
\* extractTransaction, and the fallback when the extraction throws
FinalizeAndExtract(st, inputs, extractOk, fallbackExtractOk) ==
    LET witnessStackData == witnessStackOf(st.witnessData, HexDecode(st.script.compiledScript))
        finalized == [inputs EXCEPT ![1].finalized = TRUE,
                                    ![1].witness = finalScriptWitness(witnessStackData)]
        primary == [st EXCEPT !.inputs = finalized]
    IN  IF AllFinalized(finalized) /\ extractOk
        THEN [primary EXCEPT !.pc = "pushTx",
                             !.trace = @ \o <<"finalizeInput", "extractTransaction", "pushTx">>]
        ELSE LET simple == [primary EXCEPT !.trace = @ \o <<"finalizeInput">>]
                 simpleInputs == <<PsbtInput(st.script.utxos[1], "script", FALSE)>>
             IN  IF st.walletUtxosNeeded > 0
                 THEN [simple EXCEPT !.pc = "fallbackGetUtxos", !.path = "fallback",
                                     !.inputs = simpleInputs,
                                     !.trace = @ \o <<"getUtxos">>]
                 ELSE FallbackFinish(simple, simpleInputs, fallbackExtractOk)

\* from the fee computation to the signer: the output, its checks, and the
\* decision whether the wallet signs
BuildOutput(st, inputs, totalInput, walletUtxosNeeded, hasUnisat, extractOk, fallbackExtractOk) ==
    LET singleUtxoValue == st.script.utxos[1].value
        finalOutput == finalOutputOf(singleUtxoValue, totalInput, walletUtxosNeeded)
        actualUsedFee == totalInput - finalOutput
        check == outputChecks(finalOutput, actualUsedFee)
        built == [st EXCEPT !.inputs = inputs, !.totalInput = totalInput,
                            !.walletUtxosNeeded = walletUtxosNeeded,
                            !.finalOutput = finalOutput,
                            !.outputs = <<TxOutput(WalletAddress, finalOutput)>>]
    IN  IF check # <<>>
        THEN UnlockFails([st EXCEPT !.inputs = inputs, !.totalInput = totalInput,
                                    !.walletUtxosNeeded = walletUtxosNeeded], check)
        ELSE IF needsWalletSigning(walletUtxosNeeded,
                                   scriptNeedsSignatures(st.script.originalScript))
        THEN IF ~hasUnisat THEN UnlockFails(built, MsgUnisatMissing)
             ELSE [built EXCEPT !.pc = "signPsbt", !.trace = @ \o <<"signPsbt">>]
        ELSE FinalizeAndExtract(built, inputs, extractOk, fallbackExtractOk)

\* the refresh button or the wallet connecting: loadScripts runs (no unlock
\* is in flight)
LoadScripts ==
    /\ u.pc \in {"idle", "done", "failed"}
    /\ \E failed \in SUBSET (1..Len(getTrackedScriptsByWallet(localStorage, WalletAddress))) :
          scriptUtxos' = loadScripts(localStorage, chainScriptUtxos, failed)
    /\ UNCHANGED <<parseVars, selVars, witnessVars, tabVars, formVars, markVars, envVars, fundVars, u>>

\* handleUnlock of an available script card, with typed in its witness
\* fields, calls unlockScript(script, cleanInputs): it runs up to its first
\* await, getPublicKey
UnlockStart ==
    /\ u.pc \in {"idle", "done", "failed"}
    /\ u.calls < MaxUnlockCalls
    /\ \E i \in 1..Len(scriptUtxos), typed \in UnlockWitnessInputs :
          /\ scriptUtxos[i].utxos # <<>>
          /\ ~scriptUtxos[i].isSpent
          /\ cleanInputs(typed) # <<>>
          /\ u' = [UnlockIdle EXCEPT !.pc = "getPublicKey", !.script = scriptUtxos[i],
                                     !.trace = <<"getPublicKey">>,
                                     !.calls = u.calls + 1,
                                     !.witnessData = cleanInputs(typed)]
    /\ UNCHANGED <<parseVars, selVars, witnessVars, tabVars, formVars, markVars, envVars, fundVars, scriptUtxos>>

\* getPublicKey settles: the address is recomputed and compared, the script
\* input added and the sponsorship decided
UnlockKeyReturned ==
    /\ u.pc = "getPublicKey"
    /\ \E ok, extractOk, fallbackExtractOk \in BOOLEAN :
          LET compiledScript == HexDecode(u.script.compiledScript)
              address == p2wshAddress(compiledScript)
              utxoToUnlock == u.script.utxos[1]
              singleUtxoValue == utxoToUnlock.value
              inputs == <<PsbtInput(utxoToUnlock, "script", FALSE)>>
              st == [u EXCEPT !.trace = @ \o <<"p2wsh">>]
          IN  u' = IF ~ok THEN UnlockFails(u, MsgNoPublicKey)
                   ELSE IF addressMismatch(address, u.script.scriptAddress)
                   THEN UnlockFails(st, MsgAddressMismatch)
                   ELSE IF needsWalletSponsorship(singleUtxoValue)
                   THEN [st EXCEPT !.pc = "getWalletUtxos", !.sponsored = TRUE,
                                   !.inputs = inputs, !.totalInput = singleUtxoValue,
                                   !.trace = @ \o <<"getUtxos">>]
                   ELSE BuildOutput(st, inputs, singleUtxoValue, 0, unisat,
                                    extractOk, fallbackExtractOk)
    /\ broadcasts' = IF u'.pc = "pushTx" THEN Append(broadcasts, UnlockTx(u')) ELSE broadcasts
    /\ UNCHANGED <<parseVars, selVars, witnessVars, tabVars, formVars, markVars, fundVars, scriptUtxos, chainWalletUtxos,
                   chainScriptUtxos, localStorage, unisat, txCount>>

\* getUtxos(walletAddress) settles: wallet UTXOs are added until they cover
\* fee + 546
UnlockWalletUtxosReturned ==
    /\ u.pc = "getWalletUtxos"
    /\ \E ok, netError, extractOk, fallbackExtractOk \in BOOLEAN :
       \E fetched \in SUBSET (1..Len(getUtxos(chainWalletUtxos))) :
          LET walletUtxos == getUtxos(chainWalletUtxos)
              singleUtxoValue == u.script.utxos[1].value
              shortfall == actualMinFee + 546
              added == SponsorLoop(walletUtxos, 1, fetched, shortfall, <<>>)
              walletUtxosNeeded == TotalOf(added)
              totalInput == singleUtxoValue + walletUtxosNeeded
              inputs == u.inputs \o AsWalletInputs(added)
          IN  u' = IF ~ok THEN UnlockFails(u, MsgFetchUtxosFailed)
                   ELSE IF walletUtxos = <<>> THEN UnlockFails(u, MsgNoWalletUtxos)
                   ELSE IF netError THEN UnlockFails(u, MsgFailedToFetch)
                   ELSE IF totalInput < singleUtxoValue + unlockEstimatedFee
                   THEN UnlockFails([u EXCEPT !.inputs = inputs, !.totalInput = totalInput,
                                              !.walletUtxosNeeded = walletUtxosNeeded],
                                    MsgUnlockInsufficient(singleUtxoValue + unlockEstimatedFee,
                                                          totalInput))
                   ELSE BuildOutput(u, inputs, totalInput, walletUtxosNeeded, unisat,
                                    extractOk, fallbackExtractOk)
    /\ broadcasts' = IF u'.pc = "pushTx" THEN Append(broadcasts, UnlockTx(u')) ELSE broadcasts
    /\ UNCHANGED <<parseVars, selVars, witnessVars, tabVars, formVars, markVars, fundVars, scriptUtxos, chainWalletUtxos,
                   chainScriptUtxos, localStorage, unisat, txCount>>

\* window.unisat.signPsbt settles: the user rejects, or the wallet returns
\* the PSBT with the wallet inputs finalized or not
UnlockSigned ==
    /\ u.pc = "signPsbt"
    /\ \E outcome \in {"rejected", "unfinalized", "finalized"} :
       \E extractOk, fallbackExtractOk \in BOOLEAN :
          LET signed == [i \in 1..Len(u.inputs) |->
                            IF u.inputs[i].kind = "wallet"
                            THEN [u.inputs[i] EXCEPT !.finalized = (outcome = "finalized")]
                            ELSE u.inputs[i]]
          IN  u' = IF outcome = "rejected" THEN UnlockFails(u, MsgUserRejected)
                   ELSE FinalizeAndExtract(u, signed, extractOk, fallbackExtractOk)
    /\ broadcasts' = IF u'.pc = "pushTx" THEN Append(broadcasts, UnlockTx(u')) ELSE broadcasts
    /\ UNCHANGED <<parseVars, selVars, witnessVars, tabVars, formVars, markVars, fundVars, scriptUtxos, chainWalletUtxos,
                   chainScriptUtxos, localStorage, unisat, txCount>>

\* the fallback's getUtxos(walletAddress) settles: wallet UTXOs are added
\* again, until they cover estimatedFee - singleUtxoValue + 546
UnlockFallbackUtxosReturned ==
    /\ u.pc = "fallbackGetUtxos"
    /\ \E ok, fallbackExtractOk \in BOOLEAN :
       \E fetched \in SUBSET (1..Len(getUtxos(chainWalletUtxos))) :
          LET walletUtxos == getUtxos(chainWalletUtxos)
              singleUtxoValue == u.script.utxos[1].value
              shortfall == fallbackShortfall(singleUtxoValue)
              added == SponsorLoop(walletUtxos, 1, fetched, shortfall, <<>>)
          IN  u' = IF ~ok THEN UnlockFails(u, MsgFetchUtxosFailed)
                   ELSE FallbackFinish(u, u.inputs \o AsWalletInputs(added),
                                       fallbackExtractOk)
    /\ broadcasts' = IF u'.pc = "pushTx" THEN Append(broadcasts, UnlockTx(u')) ELSE broadcasts
    /\ UNCHANGED <<parseVars, selVars, witnessVars, tabVars, formVars, markVars, fundVars, scriptUtxos, chainWalletUtxos,
                   chainScriptUtxos, localStorage, unisat, txCount>>

RECURSIVE WithoutTxids(_, _)
\* the listed script outputs that are not spent by inputs
WithoutTxids(listed, inputs) ==
    IF listed = <<>> THEN <<>>
    ELSE IF \E i \in 1..Len(inputs) : inputs[i].txid = Head(listed).txid
         THEN WithoutTxids(Tail(listed), inputs)
         ELSE <<Head(listed)>> \o WithoutTxids(Tail(listed), inputs)

\* a broadcast step that marks the record spent before pushTx has answered,
\* and then fails
UnlockBroadcastMarksFirst ==
    /\ u.pc = "pushTx"
    /\ localStorage' = markScriptAsSpent(localStorage, u.script.scriptAddress)
    /\ markCalls' = Append(markCalls, u.script.scriptAddress)
    /\ u' = UnlockFails(u, MsgBroadcastFailed)
    /\ UNCHANGED <<parseVars, selVars, witnessVars, tabVars, formVars, fundVars, unisat, broadcasts, scriptUtxos,
                   chainWalletUtxos, chainScriptUtxos, txCount>>

\* the network accepts a transaction only if the script output it spends
\* is unspent
ScriptInputUnspent(inputs, chain) ==
    \E j \in 1..Len(chain) : chain[j].txid = inputs[1].txid

\* pushTx settles: on success the record is marked spent and the list of
\* the component updated
UnlockBroadcast ==
    /\ u.pc = "pushTx"
    /\ \E ok \in BOOLEAN :
          IF ~ok \/ ~ScriptInputUnspent(u.inputs, chainScriptUtxos)
          THEN /\ u' = UnlockFails(u, MsgBroadcastFailed)
               /\ UNCHANGED <<scriptUtxos, chainWalletUtxos, chainScriptUtxos,
                              localStorage, txCount, markCalls>>
          ELSE LET unlockTxid == NewTxid
               IN  /\ txCount' = txCount + 1
                   /\ chainScriptUtxos' = WithoutTxids(chainScriptUtxos, u.inputs)
                   /\ chainWalletUtxos' =
                        Append(Without(chainWalletUtxos, u.inputs),
                               Utxo(unlockTxid, u.outputs[1].value))
                   /\ localStorage' = markScriptAsSpent(localStorage, u.script.scriptAddress)
                   /\ markCalls' = Append(markCalls, u.script.scriptAddress)
                   /\ scriptUtxos' =
                        [i \in 1..Len(scriptUtxos) |->
                            IF scriptUtxos[i].scriptAddress = u.script.scriptAddress
                            THEN [scriptUtxos[i] EXCEPT !.unlockTxid = unlockTxid,
                                                        !.isSpent = TRUE]
                            ELSE scriptUtxos[i]]
                   /\ u' = [u EXCEPT !.pc = "loadScripts", !.unlockTxid = unlockTxid,
                                     !.trace = @ \o <<"markScriptAsSpent", "loadScripts">>]
    /\ UNCHANGED <<parseVars, selVars, witnessVars, tabVars, formVars, fundVars, unisat, broadcasts>>

\* the loadScripts() that unlockScript awaits last
UnlockReloaded ==
    /\ u.pc = "loadScripts"
    /\ \E failed \in SUBSET (1..Len(getTrackedScriptsByWallet(localStorage, WalletAddress))) :
          scriptUtxos' = loadScripts(localStorage, chainScriptUtxos, failed)
    /\ u' = [u EXCEPT !.pc = "done"]
    /\ UNCHANGED <<parseVars, selVars, witnessVars, tabVars, formVars, markVars, envVars, fundVars>>

(***************************************************************************)
(* Inputs of the compiler runs.                                            *)
(***************************************************************************)
MaxLines == 2

MaxNormLines == 2

MaxEdits == 2

\* source lines the compiler is run on: opcodes known and unknown, hex data
\* well-formed and malformed, decimal literals on both sides of every
\* branch and width, free text, comments, blank lines
TestLines ==
    { <<"O", "P", "_", "1">>,
      <<"O", "P", "_", "D", "U", "P">>,
      <<"O", "P", "_", "C", "H", "E", "C", "K", "S", "I", "G">>,
      <<"O", "P", "_", "N", "O", "T", "A", "R", "E", "A", "L", "O", "P">>,
      <<"O", "P", "_", "d", "u", "p">>,
      <<" ", "O", "P", "_", "E", "Q", "U", "A", "L", "\t">>,
      <<"0", "x", "a", "b">>,
      <<"0", "x", "a", "b", "c">>,
      <<"0", "x", "z", "z">>,
      <<"0", "x", "a", "b", "z", "z">>,
      <<"0", "x">>,
      <<"0", "x", "0", "1">>,
      <<"0">>,
      <<"7">>,
      <<"1", "6">>,
      <<"1", "7">>,
      <<"0", "0", "1", "7">>,
      <<"1", "2", "8">>,
      <<"3", "2", "7", "6", "8">>,
      <<"2", "1", "4", "7", "4", "8", "3", "6", "4", "8">>,
      <<"4", "2", "9", "4", "9", "6", "7", "2", "9", "6">>,
      <<"h", "e", "l", "l", "o">>,
      <<"/", "/", " ", "n", "o", "t", "e">>,
      <<>>,
      <<" ", " ">> }

\* the lines of the sources that are then edited by whitespace and comments
NormLines ==
    { <<"O", "P", "_", "1">>,
      <<" ", "O", "P", "_", "D", "U", "P">>,
      <<"0", "x", "a", "b">>,
      <<"1", "7">>,
      <<"h", "e", "l", "l", "o">>,
      <<"O", "P", "_", "N", "O", "P", "E">>,
      <<"/", "/", " ", "n", "o", "t", "e">>,
      <<>> }

CommentLine == <<" ", " ", "/", "/", " ", "u", "n", "l", "o", "c", "k", " ", "w", "i", "t", "h", " ", "t", "h", "e", " ", "p", "r", "e", "i", "m", "a", "g", "e">>

BlankLine == <<" ", "\t">>

InsertAt(s, i, e) == SubSeq(s, 1, i - 1) \o <<e>> \o SubSeq(s, i, Len(s))

(***************************************************************************)
(* Actions of the compiler runs.                                           *)
(***************************************************************************)
InitParseIdle ==
    /\ scriptText = <<>>
    /\ baseText = <<>>
    /\ parsed = NotParsed
    /\ baseParsed = NotParsed
    /\ edits = 0

InitSelectIdle ==
    /\ selUtxos = <<>>
    /\ selTarget = 0
    /\ selResult = [status |-> "not run", selectedUtxos |-> <<>>, totalValue |-> 0,
                    message |-> <<>>]

InitEnvIdle ==
    /\ chainWalletUtxos = <<>>
    /\ chainScriptUtxos = <<>>
    /\ localStorage = <<>>
    /\ unisat = TRUE
    /\ broadcasts = <<>>
    /\ txCount = 0

InitFundIdle ==
    /\ fpc = "idle"
    /\ fAmount = 0
    /\ fAddress = p2wshAddress(<<>>)
    /\ fSelected = <<>>
    /\ fTotalValue = 0
    /\ fChange = 0
    /\ fPsbt = EmptyPsbt
    /\ fIndex = 0
    /\ fError = <<>>
    /\ fResult = [txid |-> 0, scriptAddress |-> p2wshAddress(<<>>)]
    /\ fTrace = <<>>

InitUnlockIdle ==
    /\ scriptUtxos = <<>>
    /\ u = UnlockIdle
    /\ witnessInputs = <<<<>>>>
    /\ witnessStack = <<>>
    /\ markCalls = <<>>
    /\ tabs = TabsIdle
    /\ form = FormIdle

\* parseScript(scriptText) is called on the current source
RunParse ==
    /\ parsed = NotParsed
    /\ parsed' = parseScript(scriptText)
    /\ baseParsed' = IF edits = 0 THEN parseScript(scriptText) ELSE baseParsed
    /\ UNCHANGED <<scriptText, baseText, edits, selVars, witnessVars, tabVars, formVars, markVars,
                   envVars, fundVars, unlockVars>>

\* the user adds a blank line before line i (or at the end)
InsertBlankLine ==
    /\ parsed # NotParsed
    /\ edits < MaxEdits
    /\ \E i \in 1..(Len(scriptText) + 1) :
          scriptText' = InsertAt(scriptText, i, BlankLine)
    /\ parsed' = NotParsed
    /\ edits' = edits + 1
    /\ UNCHANGED <<baseText, baseParsed, selVars, witnessVars, tabVars, formVars, markVars, envVars, fundVars, unlockVars>>

\* the user adds a comment line before line i (or at the end)
InsertCommentLine ==
    /\ parsed # NotParsed
    /\ edits < MaxEdits
    /\ \E i \in 1..(Len(scriptText) + 1) :
          scriptText' = InsertAt(scriptText, i, CommentLine)
    /\ parsed' = NotParsed
    /\ edits' = edits + 1
    /\ UNCHANGED <<baseText, baseParsed, selVars, witnessVars, tabVars, formVars, markVars, envVars, fundVars, unlockVars>>

\* the user pads line i with leading and trailing whitespace
PadLine ==
    /\ parsed # NotParsed
    /\ edits < MaxEdits
    /\ \E i \in 1..Len(scriptText) :
          scriptText' = [scriptText EXCEPT ![i] = <<" ">> \o @ \o <<"\t", " ">>]
    /\ parsed' = NotParsed
    /\ edits' = edits + 1
    /\ UNCHANGED <<baseText, baseParsed, selVars, witnessVars, tabVars, formVars, markVars, envVars, fundVars, unlockVars>>

InitParse ==
    /\ scriptText \in SeqsUpTo(TestLines, MaxLines)
    /\ baseText = scriptText
    /\ parsed = NotParsed
    /\ baseParsed = NotParsed
    /\ edits = 0
    /\ InitSelectIdle
    /\ InitEnvIdle
    /\ InitFundIdle
    /\ InitUnlockIdle

NextParse == RunParse

SpecParse == InitParse /\ [][NextParse]_vars

\* selectUtxos(selUtxos, selTarget) is called
RunSelect ==
    /\ selResult.status = "not run"
    /\ selResult' = selectUtxos(selUtxos, selTarget)
    /\ UNCHANGED <<selUtxos, selTarget, parseVars, witnessVars, tabVars, formVars, markVars, envVars, fundVars, unlockVars>>

InitSelect ==
    /\ selUtxos \in {AsUtxos(vals) : vals \in SeqsUpTo(SelValues, MaxUtxos)}
    /\ selTarget \in SelTargets
    /\ selResult = [status |-> "not run", selectedUtxos |-> <<>>, totalValue |-> 0,
                    message |-> <<>>]
    /\ InitParseIdle
    /\ InitEnvIdle
    /\ InitFundIdle
    /\ InitUnlockIdle

NextSelect == RunSelect

SpecSelect == InitSelect /\ [][NextSelect]_vars

InitNormalize ==
    /\ scriptText \in SeqsUpTo(NormLines, MaxNormLines)
    /\ baseText = scriptText
    /\ parsed = NotParsed
    /\ baseParsed = NotParsed
    /\ edits = 0
    /\ InitSelectIdle
    /\ InitEnvIdle
    /\ InitFundIdle
    /\ InitUnlockIdle

NextNormalize == RunParse \/ InsertBlankLine \/ InsertCommentLine \/ PadLine

SpecNormalize == InitNormalize /\ [][NextNormalize]_vars


(***************************************************************************)
(* Funding runs: the form values, the wallet's UTXOs and the presence of   *)
(* the wallet extension are drawn; one createScriptTransaction call runs.  *)
(***************************************************************************)
MaxWalletUtxos == 2

\* sources submitted: the hash-lock and puzzle templates (hash shortened),
\* sources with an unknown opcode, alone and behind other lines, and a line
\* of plain words
FundSources ==
    { <<<<"/", "/", " ", "H", "a", "s", "h", " ", "L", "o", "c", "k", " ", "S", "c", "r", "i", "p", "t", " ", "-", " ", "r", "e", "q", "u", "i", "r", "e", "s", " ", "r", "e", "v", "e", "a", "l", "i", "n", "g", " ", "a", " ", "s", "e", "c", "r", "e", "t">>,
        <<"O", "P", "_", "S", "H", "A", "2", "5", "6", " ">>,
        <<"0", "x", "2", "c", "f", "2", "4", "d", "b", "a", " ">>,
        <<"O", "P", "_", "E", "Q", "U", "A", "L">>>>,
      <<<<"O", "P", "_", "A", "D", "D", " ">>,
        <<"1", "0", " ">>,
        <<"O", "P", "_", "E", "Q", "U", "A", "L">>>>,
      <<<<"O", "P", "_", "N", "O", "T", "A", "R", "E", "A", "L", "O", "P">>>>,
      <<<<"O", "P", "_", "D", "U", "P">>,
        <<"O", "P", "_", "N", "O", "T", "A", "R", "E", "A", "L", "O", "P">>,
        <<"O", "P", "_", "E", "Q", "U", "A", "L">>>>,
      <<<<"h", "e", "l", "l", "o">>,
        <<"O", "P", "_", "N", "O", "T", "A", "R", "E", "A", "L", "O", "P">>>>,
      <<<<"0", "x", "a", "b", "c">>,
        <<"O", "P", "_", "N", "O", "T", "A", "R", "E", "A", "L", "O", "P">>>>,
      <<<<"I", "n", "s", "u", "f", "f", "i", "c", "i", "e", "n", "t", " ", "f", "u", "n", "d", "s">>>> }

\* amounts typed into the form, below and from the schema's minimum
FundAmounts == {100, 546, 1000, 2000}

\* values of the wallet's UTXOs, below and from the API client's dust filter
FundWalletValues == {300, 1546, 2000, 3000}

\* the registry before the call: empty, or holding the earlier record
PriorRegistries == {<<>>, <<PriorRecord>>}

InitFund ==
    /\ scriptText \in FundSources
    /\ baseText = scriptText
    /\ parsed = NotParsed
    /\ baseParsed = NotParsed
    /\ edits = 0
    /\ InitSelectIdle
    /\ chainWalletUtxos \in {AsUtxos(vals) : vals \in SeqsUpTo(FundWalletValues, MaxWalletUtxos)}
    /\ chainScriptUtxos = <<>>
    /\ localStorage \in PriorRegistries
    /\ unisat \in BOOLEAN
    /\ broadcasts = <<>>
    /\ txCount = 0
    /\ fpc = "idle"
    /\ fAmount \in FundAmounts
    /\ fAddress = p2wshAddress(<<>>)
    /\ fSelected = <<>>
    /\ fTotalValue = 0
    /\ fChange = 0
    /\ fPsbt = EmptyPsbt
    /\ fIndex = 0
    /\ fError = <<>>
    /\ fResult = [txid |-> 0, scriptAddress |-> p2wshAddress(<<>>)]
    /\ fTrace = <<>>
    /\ InitUnlockIdle

NextFund ==
    \/ FundStart
    \/ FundUtxosReturned
    \/ FundInputResolved
    \/ FundSigned
    \/ FundBroadcast

SpecFund == InitFund /\ [][NextFund]_vars

(***************************************************************************)
(* Unlock runs: the registry holds the record of one funded script; the    *)
(* outputs at its address and the wallet's UTXOs are drawn.                *)
(***************************************************************************)
MaxScriptUtxos == 1

MaxSponsorUtxos == 2

\* the sources of the tracked scripts: one without and one with a signature
\* check
UnlockSources ==
    { <<<<"O", "P", "_", "S", "H", "A", "2", "5", "6">>, <<"0", "x", "2", "c", "f", "2", "4", "d", "b", "a">>, <<"O", "P", "_", "E", "Q", "U", "A", "L">>>>,
      <<<<"O", "P", "_", "D", "U", "P">>, <<"O", "P", "_", "C", "H", "E", "C", "K", "S", "I", "G">>>> }

\* values of the outputs at the script address: below the API client's dust
\* filter, and on both sides of fee and fee + 546
ScriptValues == {400, 1500, 2045, 2046, 5000}

\* values of the wallet's UTXOs
SponsorValues == {1500, 3000}

\* the record createScriptTransaction saves for a source funded by txid
TrackedRecord(source, txid, amount) ==
    [id |-> <<txid, 0>>,
     scriptAddress |-> p2wshAddress(parseScript(source).bytes),
     originalScript |-> source,
     compiledScript |-> toHex(parseScript(source).bytes),
     createdAt |-> 1,
     createdBy |-> WalletAddress,
     fundingTxid |-> txid,
     amount |-> amount,
     isSpent |-> FALSE]

\* the stored records of a source: as saved, and with the compiled script
\* replaced in the browser's storage
StoredRecords(source) ==
    { TrackedRecord(source, 1, 1000),
      [TrackedRecord(source, 1, 1000) EXCEPT !.compiledScript = <<"5", "1">>] }

InitUnlock ==
    /\ InitParseIdle
    /\ InitSelectIdle
    /\ InitFundIdle
    /\ \E source \in UnlockSources :
       \E vals \in SeqsUpTo(ScriptValues, MaxScriptUtxos) :
          /\ localStorage \in {<<r>> : r \in StoredRecords(source)}
          /\ chainScriptUtxos =
                [i \in 1..Len(vals) |->
                    [txid |-> i, value |-> vals[i],
                     address |-> p2wshAddress(parseScript(source).bytes)]]
    /\ chainWalletUtxos \in
          {[i \in 1..Len(vals) |-> Utxo(10 + i, vals[i])] :
              vals \in SeqsUpTo(SponsorValues, MaxSponsorUtxos)}
    /\ unisat \in BOOLEAN
    /\ broadcasts = <<>>
    /\ txCount = 0
    /\ InitUnlockIdle

NextUnlock ==
    \/ LoadScripts
    \/ UnlockStart
    \/ UnlockKeyReturned
    \/ UnlockWalletUtxosReturned
    \/ UnlockSigned
    \/ UnlockFallbackUtxosReturned
    \/ UnlockBroadcast
    \/ UnlockReloaded

SpecUnlock == InitUnlock /\ [][NextUnlock]_vars

(***************************************************************************)
(* Witness runs: items are typed into the unlock form of a script and the  *)
(* witness stack is built from them.                                       *)
(***************************************************************************)
MaxWitnessItems == 2

\* what a witness field can hold: hex, the truth words, digits, text, a
\* padded digit, nothing
WitnessItems ==
    { <<"0", "x", "a", "b">>,
      <<"0", "x">>,
      <<"O", "P", "_", "T", "R", "U", "E">>,
      <<"1">>,
      <<"O", "P", "_", "F", "A", "L", "S", "E">>,
      <<"0">>,
      <<"1", "7">>,
      <<"0", "1">>,
      <<"1", "2", "8">>,
      <<"4", "2", "9", "4", "9", "6", "7", "2", "9", "6">>,
      <<"h", "e", "l", "l", "o">>,
      <<" ", "1">>,
      <<>> }

\* the witness stack of the script input is built from the typed items
BuildWitness ==
    /\ witnessStack = <<>>
    /\ cleanInputs(witnessInputs) # <<>>
    /\ witnessStack' = witnessStackOf(cleanInputs(witnessInputs), parseScript(scriptText).bytes)
    /\ UNCHANGED <<parseVars, selVars, envVars, fundVars, unlockVars, witnessInputs, tabVars, formVars, markVars>>

InitWitness ==
    /\ scriptText \in UnlockSources
    /\ baseText = scriptText
    /\ parsed = NotParsed
    /\ baseParsed = NotParsed
    /\ edits = 0
    /\ InitSelectIdle
    /\ InitEnvIdle
    /\ InitFundIdle
    /\ scriptUtxos = <<>>
    /\ u = UnlockIdle
    /\ witnessInputs \in SeqsUpTo(WitnessItems, MaxWitnessItems)
    /\ witnessStack = <<>>
    /\ markCalls = <<>>
    /\ tabs = TabsIdle
    /\ form = FormIdle

NextWitness == BuildWitness

SpecWitness == InitWitness /\ [][NextWitness]_vars

(***************************************************************************)
(* Registry runs: markScriptAsSpent is called on a stored registry.        *)
(***************************************************************************)
MaxRecords == 3
MaxMarkCalls == 2

\* script addresses: two that records are stored under, one that is not
MarkAddresses ==
    { p2wshAddress(<<OP_1>>), p2wshAddress(<<OP_0>>), p2wshAddress(<<OP_1, OP_1>>) }

\* stored records: spent or not, at either address
MarkRecords ==
    { [PriorRecord EXCEPT !.scriptAddress = a, !.isSpent = spent] :
        a \in {p2wshAddress(<<OP_1>>), p2wshAddress(<<OP_0>>)}, spent \in BOOLEAN }

\* markScriptAsSpent(scriptAddress) is called
MarkSpent ==
    /\ Len(markCalls) < MaxMarkCalls
    /\ \E scriptAddress \in MarkAddresses :
          /\ localStorage' = markScriptAsSpent(localStorage, scriptAddress)
          /\ markCalls' = Append(markCalls, scriptAddress)
    /\ UNCHANGED <<parseVars, selVars, fundVars, unlockVars, witnessVars, tabVars, formVars, chainWalletUtxos,
                   chainScriptUtxos, unisat, broadcasts, txCount>>

InitMark ==
    /\ InitParseIdle
    /\ InitSelectIdle
    /\ InitFundIdle
    /\ InitUnlockIdle
    /\ chainWalletUtxos = <<>>
    /\ chainScriptUtxos = <<>>
    /\ localStorage \in SeqsUpTo(MarkRecords, MaxRecords)
    /\ unisat = TRUE
    /\ broadcasts = <<>>
    /\ txCount = 0

NextMark == MarkSpent

SpecMark == InitMark /\ [][NextMark]_vars

(***************************************************************************)
(* Registry runs with both writers: records are saved and marked spent.    *)
(***************************************************************************)
\* saveTrackedScript(script) is called
SaveTracked ==
    /\ Len(localStorage) < MaxRecords
    /\ \E script \in MarkRecords :
          localStorage' = saveTrackedScript(localStorage, script)
    /\ UNCHANGED <<parseVars, selVars, fundVars, unlockVars, witnessVars, tabVars, formVars, markVars,
                   chainWalletUtxos, chainScriptUtxos, unisat, broadcasts, txCount>>

InitRegistry ==
    /\ InitParseIdle
    /\ InitSelectIdle
    /\ InitFundIdle
    /\ InitUnlockIdle
    /\ chainWalletUtxos = <<>>
    /\ chainScriptUtxos = <<>>
    /\ localStorage \in PriorRegistries
    /\ unisat = TRUE
    /\ broadcasts = <<>>
    /\ txCount = 0

NextRegistry ==
    \/ SaveTracked
    \/ MarkSpent

SpecRegistry == InitRegistry /\ [][NextRegistry]_vars

(***************************************************************************)
(* Unlock runs on a chain that moves: between two calls of the component   *)
(* a script output can be spent by someone else (another tab, another      *)
(* wallet that knows the witness).                                         *)
(***************************************************************************)
ScriptOutputSpentElsewhere ==
    /\ u.pc \in {"idle", "done", "failed"}
    /\ \E j \in 1..Len(chainScriptUtxos) :
          chainScriptUtxos' = WithoutTxids(chainScriptUtxos, <<chainScriptUtxos[j]>>)
    /\ UNCHANGED <<parseVars, selVars, witnessVars, tabVars, formVars, markVars, fundVars, unlockVars,
                   chainWalletUtxos, localStorage, unisat, broadcasts, txCount>>

InitMovingChain == InitUnlock

NextMovingChain ==
    \/ LoadScripts
    \/ ScriptOutputSpentElsewhere
    \/ UnlockStart
    \/ UnlockKeyReturned
    \/ UnlockWalletUtxosReturned
    \/ UnlockSigned
    \/ UnlockFallbackUtxosReturned
    \/ UnlockBroadcast
    \/ UnlockReloaded

SpecMovingChain == InitMovingChain /\ [][NextMovingChain]_vars

(***************************************************************************)
(* Unlock runs on a script that was funded twice: two outputs sit at its   *)
(* address.                                                                *)
(***************************************************************************)
\* values of the two outputs
TwiceFundedValues == {1500, 5000}

InitTwiceFunded ==
    /\ InitParseIdle
    /\ InitSelectIdle
    /\ InitFundIdle
    /\ \E source \in UnlockSources, first, second \in TwiceFundedValues :
          /\ localStorage = <<TrackedRecord(source, 1, first)>>
          /\ chainScriptUtxos =
                [i \in 1..2 |->
                    [txid |-> i, value |-> <<first, second>>[i],
                     address |-> p2wshAddress(parseScript(source).bytes)]]
    /\ chainWalletUtxos = <<Utxo(11, 3000)>>
    /\ unisat = TRUE
    /\ broadcasts = <<>>
    /\ txCount = 0
    /\ InitUnlockIdle

SpecTwiceFunded == InitTwiceFunded /\ [][NextUnlock]_vars

(***************************************************************************)
(* Two tabs on one localStorage.  A registry call is synchronous inside    *)
(* its tab, but its getItem and its setItem are two accesses to the store  *)
(* that the two tabs share, and the other tab's accesses can fall between. *)
(***************************************************************************)
MaxTabCalls == 1

\* the calls a tab makes: a save of one of two new records, or the marking
\* of the address of the stored one
TabOps ==
    { SaveOp([PriorRecord EXCEPT !.id = <<8, 0>>, !.fundingTxid = 8]),
      SaveOp([PriorRecord EXCEPT !.id = <<9, 0>>, !.fundingTxid = 9,
                                 !.scriptAddress = p2wshAddress(<<OP_0>>)]),
      MarkOp(PriorRecord.scriptAddress) }

\* what a call writes back, given the array it read
Written(existingScripts, op) ==
    IF op.kind = "save" THEN saveTrackedScript(existingScripts, op.script)
    ELSE markScriptAsSpent(existingScripts, op.scriptAddress)

\* a tab enters saveTrackedScript or markScriptAsSpent: getTrackedScripts()
TabReads ==
    \E t \in 1..2, op \in TabOps :
        /\ tabs.tab[t].pc = "idle"
        /\ Len(tabs.tab[t].log) < MaxTabCalls
        /\ tabs' = [tabs EXCEPT !.tab[t] = [@ EXCEPT !.pc = "read", !.op = op,
                                   !.existingScripts = getTrackedScripts(localStorage)]]
        /\ UNCHANGED <<parseVars, selVars, fundVars, unlockVars, witnessVars, markVars,
                       formVars, envVars>>

\* the tab's call ends: localStorage.setItem(KEY, JSON.stringify(updatedScripts))
TabWrites ==
    \E t \in 1..2 :
        /\ tabs.tab[t].pc = "read"
        /\ localStorage' = Written(tabs.tab[t].existingScripts, tabs.tab[t].op)
        /\ tabs' = [tabs EXCEPT !.tab[t] = [@ EXCEPT !.pc = "idle",
                                                     !.log = Append(@, tabs.tab[t].op)]]
        /\ UNCHANGED <<parseVars, selVars, fundVars, unlockVars, witnessVars, markVars,
                       formVars, chainWalletUtxos, chainScriptUtxos, unisat, broadcasts,
                       txCount>>

InitTabs ==
    /\ InitParseIdle
    /\ InitSelectIdle
    /\ InitFundIdle
    /\ scriptUtxos = <<>>
    /\ u = UnlockIdle
    /\ witnessInputs = <<<<>>>>
    /\ witnessStack = <<>>
    /\ markCalls = <<>>
    /\ chainWalletUtxos = <<>>
    /\ chainScriptUtxos = <<>>
    /\ localStorage \in PriorRegistries
    /\ tabs = [TabsIdle EXCEPT !.base = localStorage]
    /\ form = FormIdle
    /\ unisat = TRUE
    /\ broadcasts = <<>>
    /\ txCount = 0

NextTabs ==
    \/ TabReads
    \/ TabWrites

SpecTabs == InitTabs /\ [][NextTabs]_vars

(***************************************************************************)
(* ScriptBuilder.handleSubmit: the progress step, its two timers and the   *)
(* settling of createScriptTransaction.  Time is counted in half seconds.  *)
(***************************************************************************)
MaxSubmits == 2
MaxHalfSeconds == 5

\* a callback set with setTimeout: due at half second due, set as the
\* seq-th timer of the page
Timer(due, seq, step) == [due |-> due, seq |-> seq, step |-> step]

\* the timer that runs next: the earliest due, the earlier set among equals
RunsFirst(timer, timers) ==
    \A other \in timers :
        \/ timer.due < other.due
        \/ timer.due = other.due /\ timer.seq <= other.seq

\* the submit button is pressed: handleSubmit runs up to its await
\* (disabled={loading || !isConnected || currentStep !== "prepare"})
SubmitStart ==
    /\ form.pc = "idle"
    /\ ~form.loading
    /\ form.currentStep = "prepare"
    /\ form.submits < MaxSubmits
    /\ form' = [form EXCEPT
                  !.pc = "createScriptTransaction",
                  !.loading = TRUE,
                  !.currentStep = "validate",
                  !.submits = @ + 1,
                  !.timers = @ \cup { Timer(form.now + 1, 4 * form.submits + 1, "sign"),
                                      Timer(form.now + 3, 4 * form.submits + 2, "broadcast") }]
    /\ UNCHANGED <<parseVars, selVars, envVars, fundVars, unlockVars, witnessVars, markVars,
                   tabVars>>

\* createScriptTransaction settles: the rest of the try block, or the catch
\* clause, and finally
SubmitSettles ==
    /\ form.pc = "createScriptTransaction"
    /\ \E ok \in BOOLEAN :
          form' = [form EXCEPT !.pc = "idle",
                               !.loading = FALSE,
                               !.outcome = IF ok THEN "success" ELSE "failure",
                               !.currentStep = IF ok THEN "complete" ELSE "prepare"]
    /\ UNCHANGED <<parseVars, selVars, envVars, fundVars, unlockVars, witnessVars, markVars,
                   tabVars>>

\* a timer that is due runs its callback: setCurrentStep(step)
TimerFires ==
    /\ \E timer \in form.timers :
          /\ timer.due <= form.now
          /\ RunsFirst(timer, form.timers)
          /\ form' = [form EXCEPT !.currentStep = timer.step,
                                  !.timers = @ \ {timer}]
    /\ UNCHANGED <<parseVars, selVars, envVars, fundVars, unlockVars, witnessVars, markVars,
                   tabVars>>

\* half a second passes; the timers that were due have run
HalfSecondPasses ==
    /\ form.now < MaxHalfSeconds
    /\ \A timer \in form.timers : timer.due > form.now
    /\ form' = [form EXCEPT !.now = @ + 1]
    /\ UNCHANGED <<parseVars, selVars, envVars, fundVars, unlockVars, witnessVars, markVars,
                   tabVars>>

InitSubmit ==
    /\ InitParseIdle
    /\ InitSelectIdle
    /\ InitEnvIdle
    /\ InitFundIdle
    /\ InitUnlockIdle

NextSubmit ==
    \/ SubmitStart
    \/ SubmitSettles
    \/ TimerFires
    \/ HalfSecondPasses

SpecSubmit == InitSubmit /\ [][NextSubmit]_vars

(***************************************************************************)
(* Preview runs: the form holds a source and a selected template; the      *)
(* preview analyses the source and the compiler of the funding path is run *)
(* on it.                                                                  *)
(***************************************************************************)
\* lines of the previewed sources
PreviewLines ==
    { <<"O", "P", "_", "1">>,
      <<"O", "P", "_", "D", "U", "P">>,
      <<"O", "P", "_", "C", "H", "E", "C", "K", "S", "I", "G">>,
      <<"O", "P", "_", "N", "O", "T", "A", "R", "E", "A", "L", "O", "P">>,
      <<"0", "x", "a", "b">>,
      <<"0", "x", "z", "z">>,
      <<"7">>,
      <<"1", "7">>,
      <<"/", "/", " ", "T", "a", "p", "r", "o", "o", "t">>,
      <<"h", "e", "l", "l", "o">> }

PreviewTemplates == {"none", "hashlock", "taproot-hashlock"}

\* the preview pane renders: analyzeScript(values.scriptCode)
RunPreview ==
    /\ form.preview = NoPreview
    /\ \E p2tr \in {"throws", "address", "no address"} :
          form' = [form EXCEPT
                     !.preview = analyzeScript(scriptText, form.selectedTemplate, p2tr)]
    /\ UNCHANGED <<parseVars, selVars, envVars, fundVars, unlockVars, witnessVars, markVars,
                   tabVars>>

InitPreview ==
    /\ scriptText \in SeqsUpTo(PreviewLines, MaxLines)
    /\ baseText = scriptText
    /\ parsed = NotParsed
    /\ baseParsed = NotParsed
    /\ edits = 0
    /\ InitSelectIdle
    /\ InitEnvIdle
    /\ InitFundIdle
    /\ scriptUtxos = <<>>
    /\ u = UnlockIdle
    /\ witnessInputs = <<<<>>>>
    /\ witnessStack = <<>>
    /\ markCalls = <<>>
    /\ tabs = TabsIdle
    /\ \E template \in PreviewTemplates :
          form = [FormIdle EXCEPT !.selectedTemplate = template]

NextPreview ==
    \/ RunPreview
    \/ RunParse

SpecPreview == InitPreview /\ [][NextPreview]_vars

(***************************************************************************)
(* Lifecycle runs: a script is funded from the builder form and then       *)
(* listed and unlocked from the manager, on the same chain and registry.   *)
(***************************************************************************)
InitLifecycle == InitFund

NextLifecycle ==
    \/ FundStart
    \/ FundUtxosReturned
    \/ FundInputResolved
    \/ FundSigned
    \/ FundBroadcast
    \/ LoadScripts
    \/ UnlockStart
    \/ UnlockKeyReturned
    \/ UnlockWalletUtxosReturned
    \/ UnlockSigned
    \/ UnlockFallbackUtxosReturned
    \/ UnlockBroadcast
    \/ UnlockReloaded

SpecLifecycle == InitLifecycle /\ [][NextLifecycle]_vars

(***************************************************************************)
(* Reference notions of the script grammar, used to state the properties.  *)
(***************************************************************************)
\* the non-blank, non-comment lines of the current source
CurrentLines == SourceLines(scriptText)

\* the remainder of a 0x line has even length and only hex digits
ValidHexData(h) == Len(h) % 2 = 0 /\ \A i \in 1..Len(h) : h[i] \in HexDigits

\* the bytes a well-formed hex string denotes
HexBytes(h) == [i \in 1..(Len(h) \div 2) |-> 16 * HexVal(h[2 * i - 1]) + HexVal(h[2 * i])]

\* the minimal script-number encoding of a non-negative magnitude: its
\* little-endian bytes, plus a zero byte when the top bit is taken
MinimalScriptNum(num) ==
    IF num # <<>> /\ Last(num) > 127 THEN Append(num, 0) ELSE num

\* a line is a token of the grammar
GrammarValid(line) ==
    \/ line \in OpcodeNames
    \/ startsWith(line, <<"0", "x">>) /\ ValidHexData(SubSeq(line, 3, Len(line)))
    \/ IsDecimal(line)

InvalidLineIndexes == {i \in 1..Len(CurrentLines) : ~GrammarValid(CurrentLines[i])}

FirstInvalidLine ==
    CurrentLines[CHOOSE i \in InvalidLineIndexes : \A j \in InvalidLineIndexes : i <= j]

(***************************************************************************)
(* Properties of the compiler.                                             *)
(***************************************************************************)
\* C6: a source line starting with 0x is accepted only if its remainder has
\* even length and only hex digits, and then yields exactly one Data element
\* holding the decoded bytes; every other 0x line fails with an
\* invalid-hex-data error.
C6_HexLineValidated ==
    (parsed # NotParsed /\ Len(CurrentLines) = 1
        /\ startsWith(CurrentLines[1], <<"0", "x">>)) =>
        LET hexData == SubSeq(CurrentLines[1], 3, Len(CurrentLines[1]))
        IN  IF ValidHexData(hexData)
            THEN parsed.ok /\ parsed.elements = <<DataElement(HexBytes(hexData))>>
            ELSE ~parsed.ok /\ parsed.error.kind = "Invalid hex data"

\* C7: a decimal literal n yields OP_0 for n = 0, the opcode OP_1 + (n - 1)
\* for 1 <= n <= 16, and for n > 16 one Data push holding the minimal
\* script-number encoding of n.
C7_DecimalLiteralEncoding ==
    (parsed # NotParsed /\ Len(CurrentLines) = 1 /\ IsDecimal(CurrentLines[1])) =>
        LET n == parseInt(CurrentLines[1])
        IN  /\ parsed.ok
            /\ parsed.elements =
                 IF n = <<>> THEN <<OpElement(OP_0)>>
                 ELSE IF Len(n) = 1 /\ n[1] <= 16 THEN <<OpElement(OP_1 + (n[1] - 1))>>
                 ELSE <<DataElement(MinimalScriptNum(n))>>

\* C8: a source with an invalid line fails with the error of its first
\* invalid line and yields no script; every line of a valid source yields
\* exactly one Element, in source order.
C8_FirstInvalidLineAborts ==
    parsed # NotParsed =>
        IF InvalidLineIndexes # {}
        THEN /\ ~parsed.ok
             /\ parsed.error.line = FirstInvalidLine
             /\ parsed.elements = <<>>
             /\ parsed.bytes = <<>>
        ELSE /\ parsed.ok
             /\ Len(parsed.elements) = Len(CurrentLines)
             /\ \A i \in 1..Len(CurrentLines) :
                   parsed.elements[i] = ParseLine(CurrentLines[i]).element

\* C9: a source and every variant of it that differs only in blank lines,
\* comment lines and leading/trailing whitespace of lines compile to the
\* same outcome: the same locking-script bytes and the same script address.
C9_NormalizedSourceSameScript ==
    parsed # NotParsed =>
        /\ parsed.ok = baseParsed.ok
        /\ parsed.bytes = baseParsed.bytes
        /\ p2wshAddress(parsed.bytes) = p2wshAddress(baseParsed.bytes)

\* an edited source (it differs from the original) that compiled to a script
C9_Witness ==
    /\ edits = MaxEdits
    /\ scriptText # baseText
    /\ parsed.ok
    /\ Len(parsed.bytes) > 1


(***************************************************************************)
(* Properties of the selector.                                             *)
(***************************************************************************)
\* sum of the values of the UTXOs at the positions in S
PickedValue(utxos, S) == SumSeq([i \in 1..Len(utxos) |-> IF i \in S THEN utxos[i].value ELSE 0])

\* C3: when the UTXOs total at least the target, selectUtxos returns the
\* shortest prefix of the UTXOs in descending value order whose sum reaches
\* the target: no selection with fewer UTXOs reaches it; totalValue is the
\* sum of the selected values and is >= target; [500,300,200,100] with
\* target 450 selects [500].
C3_SelectorGreedyMinimal ==
    (selResult.status # "not run" /\ TotalOf(selUtxos) >= selTarget) =>
        LET sel == selResult.selectedUtxos
            n == Len(sel)
        IN  /\ selResult.status = "ok"
            /\ selResult.totalValue = TotalOf(sel)
            /\ selResult.totalValue >= selTarget
            \* the selected UTXOs are distinct UTXOs of the input
            /\ \A i \in 1..n : \E j \in 1..Len(selUtxos) : selUtxos[j] = sel[i]
            /\ \A i, j \in 1..n : i # j => sel[i].txid # sel[j].txid
            \* in descending order, and ahead of every UTXO left out
            /\ \A i \in 1..(n - 1) : sel[i].value >= sel[i + 1].value
            /\ \A j \in 1..Len(selUtxos) :
                  (\A i \in 1..n : sel[i] # selUtxos[j]) =>
                      \A i \in 1..n : sel[i].value >= selUtxos[j].value
            \* it stops as soon as the target is reached
            /\ n > 0 => selResult.totalValue - sel[n].value < selTarget
            \* no selection with fewer UTXOs reaches the target
            /\ \A S \in SUBSET (1..Len(selUtxos)) :
                  Cardinality(S) < n => PickedValue(selUtxos, S) < selTarget
            /\ (Values(selUtxos) = <<500, 300, 200, 100>> /\ selTarget = 450) =>
                  Values(sel) = <<500>>

\* the selector has run on an unsorted set and needed more than one UTXO
C3_Witness ==
    /\ selResult.status = "ok"
    /\ Values(selUtxos) = <<100, 500, 300, 200>>
    /\ selTarget = 900
    /\ Values(selResult.selectedUtxos) = <<500, 300, 200>>


(***************************************************************************)
(* Properties of the funding builder.                                      *)
(***************************************************************************)
\* the wallet's UTXOs as the builder sees them, and what it needs
FundAvailable == TotalOf(getUtxos(chainWalletUtxos))

FundRequired == fAmount + estimatedFee

\* the call failed at the balance check: the script compiled, the UTXO
\* request succeeded and returned UTXOs, and they total less than required
FailedForInsufficientFunds ==
    /\ fpc = "failed"
    /\ parsed.ok
    /\ fTrace = <<"p2wsh", "getUtxos">>
    /\ fError # MsgFetchUtxosGeneric
    /\ getUtxos(chainWalletUtxos) # <<>>
    /\ FundAvailable < FundRequired

\* C4: when the available UTXOs total less than amount + 1000,
\* createScriptTransaction fails with an insufficiency error that carries
\* the available and the required amounts.
C4_InsufficiencyCarriesAmounts ==
    FailedForInsufficientFunds =>
        /\ includes(fError, <<"I", "n", "s", "u", "f", "f", "i", "c", "i", "e", "n", "t">>)
        /\ includes(fError, ToDecimal(FundAvailable))
        /\ includes(fError, ToDecimal(FundRequired))

\* the lines of the source that start with OP_ and name no known opcode
UnknownOpcodeIndexes ==
    {i \in 1..Len(CurrentLines) :
        startsWith(CurrentLines[i], <<"O", "P", "_">>) /\ CurrentLines[i] \notin OpcodeNames}

\* createScriptTransaction stopped before any derivation, fetch, signing or
\* broadcast
StoppedAtCompilation ==
    /\ fpc = "failed"
    /\ ~parsed.ok
    /\ parsed.bytes = <<>>
    /\ fTrace = <<>>
    /\ broadcasts = <<>>
    /\ localStorage \in PriorRegistries

\* C5 as claimed: for every line of the source that starts with OP_ and is
\* no known opcode, compilation fails with an error naming that line, and
\* createScriptTransaction performs no derivation, fetch, signing, broadcast.
C5_EveryUnknownOpcodeNamed ==
    parsed # NotParsed =>
        \A i \in UnknownOpcodeIndexes :
            /\ StoppedAtCompilation
            /\ parsed.error = ParseError("Unknown opcode", CurrentLines[i])

\* C5 amended: a source with a line that starts with OP_ and is no known
\* opcode fails compilation, and createScriptTransaction performs no
\* derivation, fetch, signing or broadcast; the error names that exact
\* token when no earlier line of the source is rejected.
C5_FirstUnknownOpcodeNamed ==
    parsed # NotParsed =>
        \A i \in UnknownOpcodeIndexes :
            /\ StoppedAtCompilation
            /\ (\A j \in 1..(i - 1) : ParseLine(CurrentLines[j]).error = NoError) =>
                  /\ parsed.error = ParseError("Unknown opcode", CurrentLines[i])
                  /\ ErrorMessage(parsed.error) = MsgUnknownOpcode \o CurrentLines[i]
                  /\ includes(ErrorMessage(parsed.error), CurrentLines[i])

\* the unknown opcode stands behind a valid line and is the one reported
C5_Witness ==
    /\ fpc = "failed"
    /\ UnknownOpcodeIndexes = {2}
    /\ parsed.error.kind = "Unknown opcode"
    /\ parsed.error.line = CurrentLines[2]

C10_WitnessForfeit ==
    /\ fpc = "done"
    /\ Len(fPsbt.outputs) = 1
    /\ fTotalValue - fAmount - 1000 = 454

(***************************************************************************)
(* Properties of unlockScript.                                             *)
(***************************************************************************)
\* the script UTXO the call in flight (or the last call) unlocks
UnlockValue == u.script.utxos[1].value

\* the call has passed the sponsorship decision: the script input is added
SponsorshipDecided == u.inputs # <<>>

\* the wallet was asked for UTXOs to sponsor the fee
WalletAsked == \E i \in 1..Len(u.trace) : u.trace[i] = "getUtxos"

\* C1: with fee = max(1500, 300), unlockScript asks the wallet to sponsor
\* exactly when the script UTXO value v has v < fee or v - fee < 546; for
\* every other v the transaction has the script input alone and its single
\* output returns v - fee to the wallet (400 triggers sponsorship, 5000 does
\* not and returns 3500).
C1_SponsorshipDecision ==
    /\ SponsorshipDecided =>
          LET v == UnlockValue
              fee == IF 1500 >= 300 THEN 1500 ELSE 300
              due == v < fee \/ v - fee < 546
          IN  /\ u.sponsored = due
              /\ WalletAsked = due
              /\ ~due =>
                    /\ Len(u.inputs) = 1
                    /\ u.inputs[1].kind = "script"
                    /\ u.walletUtxosNeeded = 0
                    /\ u.outputs # <<>> => u.outputs = <<TxOutput(WalletAddress, v - fee)>>
                    /\ u.pc = "pushTx" =>
                          Last(broadcasts).outputs = <<TxOutput(WalletAddress, v - fee)>>
                    /\ v = 5000 /\ u.outputs # <<>> => u.outputs[1].value = 3500
    /\ needsWalletSponsorship(400)
    /\ ~needsWalletSponsorship(5000)
    /\ finalOutputOf(5000, 5000, 0) = 3500

\* a sponsored unlock at the edge (v - fee = 545) reached the broadcast with
\* a wallet input
C1_Witness ==
    /\ u.pc = "pushTx"
    /\ UnlockValue = 2045
    /\ u.sponsored
    /\ Len(u.inputs) > 1

\* an unsponsored unlock of 5000 sats reached the broadcast returning 3500
C1_WitnessUnsponsored ==
    /\ u.pc = "pushTx"
    /\ UnlockValue = 5000
    /\ ~u.sponsored
    /\ Last(broadcasts).outputs = <<TxOutput(WalletAddress, 3500)>>

\* the transactions unlockScript handed to pushTx
UnlockBroadcasts == {b \in 1..Len(broadcasts) : broadcasts[b].kind = "unlock"}

InputTotal(tx) == SumSeq([i \in 1..Len(tx.inputs) |-> tx.inputs[i].value])

\* C2: every unlock transaction handed to pushTx, by the primary or by the
\* fallback path, has one output of at least 546 sats and an implied fee
\* (total input value - output value) of at least 300 sats.
C2_BroadcastOutputAndFeeFloors ==
    \A b \in UnlockBroadcasts :
        LET tx == broadcasts[b]
        IN  /\ tx.path \in {"primary", "fallback"}
            /\ Len(tx.outputs) = 1
            /\ tx.outputs[1].value >= 546
            /\ InputTotal(tx) - tx.outputs[1].value >= 300

\* the fallback path handed a transaction to pushTx
C2_Witness ==
    \E b \in UnlockBroadcasts : broadcasts[b].path = "fallback"

\* the primary path handed a sponsored transaction to pushTx
C2_WitnessPrimary ==
    \E b \in UnlockBroadcasts :
        /\ broadcasts[b].path = "primary"
        /\ Len(broadcasts[b].inputs) > 1

(***************************************************************************)
(* Properties of the registry over the lifecycle of a script.              *)
(***************************************************************************)
\* the step is the successful end of createScriptTransaction's pushTx: one
\* record is appended, the others are kept
FundBroadcastSucceeds ==
    /\ fpc = "pushTx"
    /\ fpc' = "done"
    /\ txCount' = txCount + 1
    /\ Len(localStorage') = Len(localStorage) + 1
    /\ SubSeq(localStorage', 1, Len(localStorage)) = localStorage

\* the step is the successful end of unlockScript's pushTx: records are
\* neither added nor removed, and only isSpent flags change
UnlockBroadcastSucceeds ==
    /\ u.pc = "pushTx"
    /\ u'.pc = "loadScripts"
    /\ txCount' = txCount + 1
    /\ Len(localStorage') = Len(localStorage)
    /\ \A i \in 1..Len(localStorage) :
          localStorage'[i] = [localStorage[i] EXCEPT !.isSpent = localStorage'[i].isSpent]

\* C11: a funding or unlock call that fails at any step up to and including
\* the broadcast leaves the registry as it was; a record is added only by a
\* funding call whose broadcast succeeded, and an isSpent flag is set only
\* by an unlock call whose broadcast succeeded.
C11_RegistryWrittenOnlyAfterBroadcast ==
    [][ /\ localStorage' # localStorage => FundBroadcastSucceeds \/ UnlockBroadcastSucceeds
        /\ (fpc' = "failed" /\ fpc # "failed") => localStorage' = localStorage
        /\ (u'.pc = "failed" /\ u.pc # "failed") => localStorage' = localStorage
        /\ Len(localStorage') > Len(localStorage) => FundBroadcastSucceeds
        /\ (\E i \in 1..Len(localStorage') :
               /\ localStorage'[i].isSpent
               /\ i <= Len(localStorage) => ~localStorage[i].isSpent)
             => UnlockBroadcastSucceeds
      ]_vars

\* a funded script whose unlock failed at the broadcast: its record is there
\* and is not spent
C11_Witness ==
    /\ fpc = "done"
    /\ u.pc = "failed"
    /\ u.error = MsgBroadcastFailed
    /\ localStorage # <<>>
    /\ Last(localStorage).id = <<fResult.txid, 0>>
    /\ ~Last(localStorage).isSpent

\* the record a funding call of the current source and amount must save
\* when its transaction got the id txid
ExpectedRecord(txid) ==
    [id |-> <<txid, 0>>,
     scriptAddress |-> p2wshAddress(parseScript(scriptText).bytes),
     originalScript |-> scriptText,
     compiledScript |-> toHex(parseScript(scriptText).bytes),
     createdBy |-> WalletAddress,
     fundingTxid |-> txid,
     amount |-> fAmount,
     isSpent |-> FALSE]

\* the fields of a stored record that the funding call determines
RecordFields(r) ==
    [id |-> r.id, scriptAddress |-> r.scriptAddress, originalScript |-> r.originalScript,
     compiledScript |-> r.compiledScript, createdBy |-> r.createdBy,
     fundingTxid |-> r.fundingTxid, amount |-> r.amount, isSpent |-> r.isSpent]

\* the last record of store is the one of the funding call that returned
\* result, and tx, the transaction it broadcast, pays the amount at output 0
FundingRecordSaved(store, result, tx) ==
    LET expected == ExpectedRecord(result.txid)
        saved == Last(store)
    IN  /\ RecordFields(saved) = expected
        /\ HexDecode(saved.compiledScript) = parseScript(scriptText).bytes
        /\ \A i \in 1..Len(saved.compiledScript) : saved.compiledScript[i] \in HexDigits
        /\ \A i \in 1..(Len(store) - 1) : store[i].id # saved.id
        /\ tx.kind = "fund"
        /\ tx.outputs[1] = TxOutput(expected.scriptAddress, fAmount)
        /\ result.scriptAddress = expected.scriptAddress

\* C12: after createScriptTransaction has succeeded with transaction id T,
\* the registry holds the records it held before and exactly one new
\* record, with id T_0, fundingTxid T, the derived P2WSH address, the
\* source, the compiled bytes in hex, the amount, the funding wallet as
\* creator and isSpent false; the output paying the amount to that address
\* is output 0 of the broadcast transaction.
C12_FundingRecordSaved ==
    [][ (fpc = "pushTx" /\ fpc' = "done") =>
            /\ Len(localStorage') = Len(localStorage) + 1
            /\ SubSeq(localStorage', 1, Len(localStorage)) = localStorage
            /\ FundingRecordSaved(localStorage', fResult', Last(broadcasts))
      ]_vars

\* a funding call succeeded in a browser whose registry held a record
C12_Witness ==
    /\ fpc = "done"
    /\ Len(localStorage) = 2
    /\ localStorage[1] = PriorRecord
    /\ Len(Last(localStorage).compiledScript) > 2

\* C13: whenever the compilation of the source fails inside
\* createScriptTransaction, the error the caller receives carries the
\* compilation error verbatim (its kind and the offending line), whatever
\* the offending line holds.
C13_CompilationErrorSurfaced ==
    (fpc = "failed" /\ ~parsed.ok /\ parsed # NotParsed) =>
        includes(fError, ErrorMessage(parsed.error))

(***************************************************************************)
(* Properties of unlockScript (continued).                                 *)
(***************************************************************************)
\* the record of the call in flight (or of the last call) does not hold the
\* script of its address
StoredScriptMismatch ==
    /\ u.pc # "idle"
    /\ p2wshAddress(HexDecode(u.script.compiledScript)) # u.script.scriptAddress

\* C14: when the P2WSH address recomputed from the record's stored compiled
\* script differs from the record's stored scriptAddress, unlockScript
\* aborts with the address-mismatch error: no input is added, the signer is
\* not called, nothing spending the script's output is broadcast and no
\* record of the address is marked spent.
C14_AddressMismatchAborts ==
    StoredScriptMismatch =>
        /\ u.pc \in {"getPublicKey", "failed"}
        /\ u.pc = "failed" => u.error \in {MsgNoPublicKey, MsgAddressMismatch}
        /\ (u.pc = "failed" /\ Len(u.trace) > 1) => u.error = MsgAddressMismatch
        /\ u.inputs = <<>>
        /\ u.outputs = <<>>
        /\ \A i \in 1..Len(u.trace) : u.trace[i] \notin {"signPsbt", "pushTx", "getUtxos"}
        /\ \A b \in 1..Len(broadcasts) :
              \A i \in 1..Len(broadcasts[b].inputs) :
                  broadcasts[b].inputs[i].txid # u.script.utxos[1].txid
        /\ \A i \in 1..Len(localStorage) :
              localStorage[i].scriptAddress = u.script.scriptAddress => ~localStorage[i].isSpent

\* an unlock of a record whose compiled script was replaced ended with the
\* address-mismatch error
C14_Witness ==
    /\ StoredScriptMismatch
    /\ u.pc = "failed"
    /\ u.error = MsgAddressMismatch

\* the value of the script input of an unlock transaction (its input 0)
ScriptInputValue(tx) == tx.inputs[1].value

\* the total value of the wallet inputs of an unlock transaction
WalletInputTotal(tx) ==
    SumSeq([i \in 1..Len(tx.inputs) |->
               IF tx.inputs[i].kind = "wallet" THEN tx.inputs[i].value ELSE 0])

\* the unlock transactions handed to pushTx whose script value triggers the
\* sponsorship
SponsoredBroadcasts ==
    {b \in UnlockBroadcasts :
        \/ ScriptInputValue(broadcasts[b]) < 1500
        \/ ScriptInputValue(broadcasts[b]) - 1500 < 546}

\* C15: in every sponsored unlock that reaches the broadcast, the wallet
\* UTXOs added as inputs total at least fee + dust floor = 1500 + 546.
C15_SponsorInputsCoverShortfall ==
    \A b \in SponsoredBroadcasts : WalletInputTotal(broadcasts[b]) >= 1500 + 546

\* C16: in every sponsored unlock that reaches the broadcast, the output
\* paid to the wallet is at least the full value of the script UTXO (the
\* wallet inputs bear the fee).
C16_SponsoredReturnsScriptValue ==
    /\ \A b \in SponsoredBroadcasts :
          /\ Len(broadcasts[b].outputs) = 1
          /\ broadcasts[b].outputs[1].address = WalletAddress
          /\ broadcasts[b].outputs[1].value >= ScriptInputValue(broadcasts[b])
          /\ InputTotal(broadcasts[b]) - broadcasts[b].outputs[1].value
                <= WalletInputTotal(broadcasts[b])
    /\ (u.pc = "pushTx" /\ u.sponsored) => u.outputs[1].value >= UnlockValue

\* a sponsored unlock of 2045 sats reached the broadcast with a wallet input
\* smaller than the script value
C16_Witness ==
    /\ u.pc = "pushTx"
    /\ u.sponsored
    /\ UnlockValue = 2045
    /\ WalletInputTotal(Last(broadcasts)) = 1500
    /\ Last(broadcasts).outputs[1].value = 2045

(***************************************************************************)
(* Properties of the witness conversion.                                   *)
(***************************************************************************)
\* the bytes a witness item stands for, by the first rule that matches; the
\* hex rule says nothing about a remainder that is not well-formed hex
WitnessBytesAsSpecified(item, bytes) ==
    IF startsWith(item, <<"0", "x">>)
    THEN ValidHexData(SubSeq(item, 3, Len(item))) =>
            bytes = HexBytes(SubSeq(item, 3, Len(item)))
    ELSE IF item = <<"O", "P", "_", "T", "R", "U", "E">> \/ item = <<"1">>
    THEN bytes = <<1>>
    ELSE IF item = <<"O", "P", "_", "F", "A", "L", "S", "E">> \/ item = <<"0">>
    THEN bytes = <<>>
    ELSE IF IsDecimal(item)
    THEN bytes = MinimalScriptNum(parseInt(item))
    ELSE bytes = utf8Bytes(item)

\* C17: each witness item is converted by the first matching rule (0x ->
\* hex-decoded bytes; OP_TRUE or 1 -> the byte 01; OP_FALSE or 0 -> the
\* empty byte string; decimal digits -> script-number encoding; anything
\* else -> its text bytes), and the witness stack is the converted items in
\* the order given, followed by the locking script.
C17_WitnessStackBuilt ==
    witnessStack # <<>> =>
        LET items == cleanInputs(witnessInputs)
        IN  /\ Len(witnessStack) = Len(items) + 1
            /\ Last(witnessStack) = parseScript(scriptText).bytes
            /\ \A i \in 1..Len(items) : WitnessBytesAsSpecified(items[i], witnessStack[i])

(***************************************************************************)
(* Properties of the signer's part in an unlock.                           *)
(***************************************************************************)
\* the transaction that the running unlockScript call handed to pushTx
UnlockBroadcastReached == u.pc \in {"pushTx", "loadScripts", "done"} /\ broadcasts # <<>>

HasWalletInputs(tx) == \E i \in 1..Len(tx.inputs) : tx.inputs[i].kind = "wallet"

\* signPsbt was called, and before every step that finalizes the witness or
\* extracts a transaction
SignerCalledBeforeWitness(trace) ==
    \E i \in 1..Len(trace) :
        /\ trace[i] = "signPsbt"
        /\ \A j \in 1..Len(trace) :
              trace[j] \in {"finalizeInput", "extractTransaction"} => i < j

C18_WitnessSponsored ==
    /\ u.pc = "pushTx"
    /\ HasWalletInputs(Last(broadcasts))
    /\ ~scriptNeedsSignatures(u.script.originalScript)

\* an unsponsored unlock of a script without signature opcodes is at pushTx
C18_WitnessUnsigned ==
    /\ u.pc = "pushTx"
    /\ ~HasWalletInputs(Last(broadcasts))
    /\ ~scriptNeedsSignatures(u.script.originalScript)
    /\ u.inputs[1].witness # <<>>

(***************************************************************************)
(* Properties of the registry after an unlock.                             *)
(***************************************************************************)
\* the running unlockScript call has broadcast its transaction with id U
UnlockedWithId == u.pc \in {"loadScripts", "done"} /\ u.unlockTxid # 0

\* the record is spent and carries the unlock transaction id
SpentWithUnlockId(record, unlockTxid) ==
    /\ record.isSpent
    /\ "unlockTxid" \in DOMAIN record
    /\ record.unlockTxid = unlockTxid

\* C19: after an unlock transaction broadcast successfully with id U, the
\* registry record of the unlocked script has isSpent = true and has U
\* attached as its unlock transaction id, and both remain so once the list
\* of scripts has been reloaded from the registry.
C19_SpentAndUnlockIdKept ==
    UnlockedWithId =>
        /\ \A i \in 1..Len(localStorage) :
              localStorage[i].scriptAddress = u.script.scriptAddress =>
                  SpentWithUnlockId(localStorage[i], u.unlockTxid)
        /\ u.pc = "done" =>
              \A i \in 1..Len(scriptUtxos) :
                  scriptUtxos[i].scriptAddress = u.script.scriptAddress =>
                      SpentWithUnlockId(scriptUtxos[i], u.unlockTxid)

(***************************************************************************)
(* Properties of markScriptAsSpent.                                        *)
(***************************************************************************)
\* every record stored at the address is spent already
AllSpentAt(store, scriptAddress) ==
    \A i \in 1..Len(store) : store[i].scriptAddress = scriptAddress => store[i].isSpent

\* C20: markScriptAsSpent is idempotent: for every registry and every
\* address, calling it twice on the address leaves the registry as calling
\* it once does, and calling it where the records are spent already changes
\* nothing.
C20_MarkSpentIdempotent ==
    \A scriptAddress \in MarkAddresses :
        LET once == markScriptAsSpent(localStorage, scriptAddress)
        IN  /\ markScriptAsSpent(once, scriptAddress) = once
            /\ AllSpentAt(localStorage, scriptAddress) => once = localStorage
            /\ (markCalls # <<>> /\ Last(markCalls) = scriptAddress) => once = localStorage

\* the same address was marked twice in a row, with a record stored at it
C20_Witness ==
    /\ Len(markCalls) = 2
    /\ markCalls[1] = markCalls[2]
    /\ \E i \in 1..Len(localStorage) :
          /\ localStorage[i].scriptAddress = markCalls[2]
          /\ localStorage[i].isSpent

(***************************************************************************)
(* Properties of the registry under saves and markings.                    *)
(***************************************************************************)
\* the record after a step is the record before it, but for isSpent, which
\* may have gone from false to true
SameButSpent(before, after) ==
    /\ [after EXCEPT !.isSpent = before.isSpent] = before
    /\ before.isSpent => after.isSpent

\* C21: across saveTrackedScript and markScriptAsSpent the registry is
\* append-only: no record is removed, a save adds exactly one record, also
\* when a record with the same address is stored already, and no field of a
\* stored record changes except isSpent going from false to true.
C21_RegistryAppendOnly ==
    [][ /\ Len(localStorage') >= Len(localStorage)
        /\ \A i \in 1..Len(localStorage) : SameButSpent(localStorage[i], localStorage'[i])
        /\ markCalls' = markCalls =>
              /\ Len(localStorage') = Len(localStorage) + 1
              /\ Last(localStorage') \in MarkRecords
        /\ markCalls' # markCalls => Len(localStorage') = Len(localStorage) ]_vars

\* three records at one address have accumulated, the earliest one spent by
\* a marking that came before the last save
C21_Witness ==
    /\ Len(localStorage) = 3
    /\ \A i \in 1..3 : localStorage[i].scriptAddress = localStorage[1].scriptAddress
    /\ localStorage[1] = [PriorRecord EXCEPT !.isSpent = TRUE]
    /\ ~localStorage[3].isSpent
    /\ markCalls = <<PriorRecord.scriptAddress>>

(***************************************************************************)
(* Properties of the UTXOs an unlock spends.                               *)
(***************************************************************************)
\* the unlockScript call has built its spend and not yet heard from pushTx
SpendBuilt ==
    /\ u.pc \in {"getWalletUtxos", "signPsbt", "fallbackGetUtxos", "pushTx"}
    /\ u.inputs # <<>>

\* C22: every unlock attempt fetches the current UTXOs at the script
\* address before it builds the spend: the script output it spends is
\* unspent when the attempt starts, never one of a list that went stale
\* since it was loaded, and with no output left the attempt fails.
C22_SpendsFreshUtxo ==
    SpendBuilt => ScriptInputUnspent(u.inputs, chainScriptUtxos)

(***************************************************************************)
(* Properties of repeated unlocks.                                         *)
(***************************************************************************)
ScriptInputCount(tx) == Cardinality({i \in 1..Len(tx.inputs) : tx.inputs[i].kind = "script"})

\* the unlock has succeeded, the list is reloaded, and the API still lists
\* an output at the address of the unlocked script
UnlockedWithOutputLeft ==
    /\ u.pc = "done"
    /\ u.unlockTxid # 0
    /\ getUtxos(UtxosAt(chainScriptUtxos, u.script.scriptAddress)) # <<>>

\* C23: each unlock call spends exactly one script UTXO, and when outputs
\* remain at the script address after it the operation can be repeated on
\* them: the script is not shown as spent, which would close its unlock
\* form.
C23_RemainingUtxosUnlockable ==
    /\ \A k \in 1..Len(broadcasts) :
          broadcasts[k].kind = "unlock" => ScriptInputCount(broadcasts[k]) = 1
    /\ UnlockedWithOutputLeft =>
          \E i \in 1..Len(scriptUtxos) :
              /\ scriptUtxos[i].scriptAddress = u.script.scriptAddress
              /\ ~scriptUtxos[i].isSpent

(***************************************************************************)
(* Properties of the order of the steps of one operation.                  *)
(***************************************************************************)
\* the stage an external step belongs to: preparation, resolution of the
\* inputs (in an unlock getUtxos stands for the wallet's list and the
\* output script of each of its UTXOs, fetched in the same step), signing,
\* finalization and extraction, broadcast, bookkeeping
StepStage(step) ==
    IF step \in {"p2wsh", "getPublicKey"} THEN 0
    ELSE IF step \in {"getUtxos", "fetchTx"} THEN 1
    ELSE IF step = "signPsbt" THEN 2
    ELSE IF step \in {"finalizeInput", "extractTransaction"} THEN 3
    ELSE IF step = "pushTx" THEN 4
    ELSE 5

StagesInOrder(trace) ==
    \A i, j \in 1..Len(trace) : i < j => StepStage(trace[i]) <= StepStage(trace[j])

\* C24: within one funding or unlock operation the steps run in order:
\* every input's previous-output script is resolved before the signer is
\* called, the signer has returned before the witness is finalized and the
\* transaction extracted, and these are done before broadcast is called.
C24_StepsInOrder ==
    /\ StagesInOrder(fTrace)
    /\ StagesInOrder(u.trace)

(***************************************************************************)
(* Properties of the fallback assembly of unlockScript.                    *)
(***************************************************************************)
\* what the fallback assembles from the wallet UTXOs the API lists, every
\* transaction request answering
FallbackAssembly ==
    LET walletUtxos == getUtxos(chainWalletUtxos)
        added == SponsorLoop(walletUtxos, 1, 1..Len(walletUtxos),
                             fallbackShortfall(u.script.utxos[1].value), <<>>)
    IN  [added |-> added,
         result |-> FallbackFinish(u, u.inputs \o AsWalletInputs(added), TRUE)]

\* C25: for the same record, witness items and chain state the fallback
\* assembly of unlockScript yields what the primary path yields: the same
\* set of inputs, the same output value and the same fee.
C25_FallbackSameAsPrimary ==
    /\ \A b \in UnlockBroadcasts :
          broadcasts[b].path = "fallback" =>
              /\ Len(broadcasts[b].inputs) = 1
              /\ broadcasts[b].outputs[1].value =
                    finalOutputOf(broadcasts[b].inputs[1].value,
                                  broadcasts[b].inputs[1].value, 0)
    /\ u.pc = "fallbackGetUtxos" =>
          /\ TotalOf(FallbackAssembly.added) = u.walletUtxosNeeded
          /\ ~startsWith(FallbackAssembly.result.error, MsgFallbackPrefix)
          /\ FallbackAssembly.result.finalOutput = u.finalOutput
          /\ FallbackAssembly.result.totalInput = u.totalInput

(***************************************************************************)
(* Properties of two writers on the registry.                              *)
(***************************************************************************)
RECURSIVE SerialResults(_, _, _)
\* the arrays that the calls of the two logs leave when they run one after
\* the other, each tab's calls in its own order
SerialResults(store, log1, log2) ==
    IF log1 = <<>> /\ log2 = <<>> THEN {store}
    ELSE (IF log1 = <<>> THEN {}
          ELSE SerialResults(Written(store, Head(log1)), Tail(log1), log2))
         \cup
         (IF log2 = <<>> THEN {}
          ELSE SerialResults(Written(store, Head(log2)), log1, Tail(log2)))

BothTabsIdle == tabs.tab[1].pc = "idle" /\ tabs.tab[2].pc = "idle"

\* C26: when two writers run saveTrackedScript and markScriptAsSpent on the
\* same store with their reads and writes interleaved, the registry is as
\* if the calls had run one after the other: it holds every record either
\* writer saved and every spent flag either writer set.
C26_WritersSerializable ==
    BothTabsIdle =>
        localStorage \in SerialResults(tabs.base, tabs.tab[1].log, tabs.tab[2].log)

(***************************************************************************)
(* Properties of the fee of an unlock.                                     *)
(***************************************************************************)
\* C27: on the primary path of unlockScript every transaction that reaches
\* broadcast pays a fee (total input value - output value) of exactly
\* max(estimatedFee, minRelayFee) = 1500 sats, sponsored or not, and the
\* fee-below-minimum check never fires on that path.
C27_PrimaryFeeExact ==
    /\ \A b \in UnlockBroadcasts :
          broadcasts[b].path = "primary" =>
              InputTotal(broadcasts[b]) - broadcasts[b].outputs[1].value
                  = Max(unlockEstimatedFee, minRelayFee)
    /\ Max(unlockEstimatedFee, minRelayFee) = 1500
    /\ u.error # MsgFeeTooLow

\* a sponsored primary transaction with wallet change is at pushTx
C27_Witness ==
    /\ u.pc = "pushTx"
    /\ u.path = "primary"
    /\ u.walletUtxosNeeded = 3000
    /\ Last(broadcasts).outputs[1].value = u.script.utxos[1].value + 1500

\* an unsponsored primary transaction is at pushTx
C27_WitnessUnsponsored ==
    /\ u.pc = "pushTx"
    /\ u.path = "primary"
    /\ u.walletUtxosNeeded = 0
    /\ Last(broadcasts).outputs[1].value = u.script.utxos[1].value - 1500

(***************************************************************************)
(* Properties of the fee of a funding.                                     *)
(***************************************************************************)
OutputTotal(tx) == SumSeq([k \in 1..Len(tx.outputs) |-> tx.outputs[k].value])

\* the change a funding transaction pays back: its second output, if any
ChangeOf(tx) == IF Len(tx.outputs) = 2 THEN tx.outputs[2].value ELSE 0

FundingConserved(tx, amount) ==
    LET total == TotalOf(tx.inputs)
        fee == total - OutputTotal(tx)
        leftover == total - amount - 1000
    IN  /\ tx.outputs[1].value = amount
        /\ total = amount + ChangeOf(tx) + fee
        /\ fee >= 1000
        /\ fee <= 1545
        /\ IF Len(tx.outputs) = 2
           THEN fee = 1000
           ELSE /\ Len(tx.outputs) = 1
                /\ leftover >= 0
                /\ leftover < 546
                /\ fee = 1000 + leftover

C28_WitnessChange ==
    /\ fpc = "done"
    /\ Len(fPsbt.outputs) = 2
    /\ TotalOf(fPsbt.inputs) - OutputTotal(fPsbt) = 1000

(***************************************************************************)
(* Properties of the progress step of the submit form.                     *)
(***************************************************************************)
\* the last submission has settled and no timer is pending
FormAtRest ==
    /\ form.pc = "idle"
    /\ form.outcome # "none"
    /\ form.timers = {}

\* C29: whatever the time at which createScriptTransaction settles, the
\* step finally rests at "prepare" after a failure, so that the submit
\* button is enabled again, and at "complete" after a success: no pending
\* timer overwrites the final step afterwards.
C29_StepRestsAtOutcome ==
    FormAtRest =>
        /\ form.outcome = "failure" => form.currentStep = "prepare"
        /\ form.outcome = "success" => form.currentStep = "complete"

(***************************************************************************)
(* Properties of the preview.                                              *)
(***************************************************************************)
\* C30: for every source and selected template for which the preview
\* (analyzeScript) reports a valid script, the compiled script and the
\* address it shows are the compiled script and the script address that
\* createScriptTransaction derives for the same source.
C30_PreviewMatchesFunding ==
    (form.preview.isValid /\ parsed # NotParsed) =>
        /\ parsed.ok
        /\ form.preview.compiledScript = toHex(parsed.bytes)
        /\ form.preview.address = p2wshAddress(parsed.bytes)

====
